---------------------------- MODULE Spec2Model ----------------------------
(***************************************************************************)
(* Attendance engine of src/routes/employees.js: check-in, check-out,      *)
(* break start, break end and bulk check-in, as request handlers that run  *)
(* concurrently on one Node process.  A handler is `await findById` (a     *)
(* private copy of the employee document), synchronous code on that copy,  *)
(* and `await employee.save()`; handlers interleave at the awaits.         *)
(*                                                                         *)
(* Units.  Instants are whole seconds since local midnight of day 0.       *)
(* hoursWorked and overtimeHours are stored as hundredths of an hour (the  *)
(* code rounds them to two decimals).  An optional field is <<>> when      *)
(* absent and <<v>> when set.  A "HH:MM" string is <<HH, MM>>, unset <<>>. *)
(* workLocation and the two GeoPoints are descriptive and left out.        *)
(***************************************************************************)
EXTENDS Integers, Sequences, FiniteSets, Bags, TLC

VARIABLES
  db,      \* the Employee collection: id -> stored document
  clock,   \* index of the current wall-clock reading in TimeLine
  req,     \* request slot -> the request in flight in it
  last,    \* the response the latest step sent, NoResponse when it sent none
  done,    \* bag of <<op, id, day>>: the check-ins, check-outs and break starts
           \* answered with success so far
  arrived  \* requests that have arrived so far (counted in Spec only)

vars == <<db, clock, req, last, done, arrived>>

-----------------------------------------------------------------------------
(* Bounds *)

MaxTick == 4      \* wall-clock readings a behaviour passes through
MaxBreaks == 2    \* breaks appended to one day's record
MaxRequests == 3  \* requests that arrive in one behaviour of Spec

-----------------------------------------------------------------------------
(* Optional values, rounding, time *)

None == <<>>
Some(v) == <<v>>
IsSet(x) == x # <<>>
Val(x) == x[1]

\* Math.floor(a / b) and Math.round(a / b) for b > 0 (round half up)
FloorDiv(a, b) == a \div b
RoundDiv(a, b) == (2 * a + b) \div (2 * b)
Max(a, b) == IF a >= b THEN a ELSE b

DaySeconds == 86400

\* 09:20:00, 12:00:00 and 17:00:00 of day 0, then 09:10:00 of day 1
TimeLine == <<33600, 43200, 61200, 119400>>

\* One day read more often: 09:15:30, 09:20:00, 12:00:00, 12:30:00, 17:00:00
\* and 18:10:00 of day 0
FineLine == <<33330, 33600, 43200, 45000, 61200, 65400>>

\* The reading with index k.  The readings of FineLine have the indices below
\* zero, -Len(FineLine) for its first and -1 for its last
TimeAt(k) == IF k < 0 THEN FineLine[Len(FineLine) + 1 + k]
             ELSE IF k <= Len(TimeLine) THEN TimeLine[k]
             ELSE TimeLine[Len(TimeLine)] + 3600 * (k - Len(TimeLine))

\* new Date()
Now == TimeAt(clock)

\* new Date(now.getFullYear(), now.getMonth(), now.getDate())
Midnight(t) == (t \div DaySeconds) * DaySeconds

\* a.toDateString() === b.toDateString()
SameDate(a, b) == (a \div DaySeconds) = (b \div DaySeconds)

-----------------------------------------------------------------------------
(* The stored documents *)

Emps == {"e1", "e2"}          \* ids present in the collection; "e9" is not

validBreakTypes == {"lunch", "tea", "dinner", "other"}
TypeInputs == {"lunch", "nap"}   \* req.body.type as sent by callers

\* shiftTiming of the stored employees: unset, so that 09:00-18:00 applies
Shifts == { [startTime |-> None, endTime |-> None] }

\* shiftTiming of the employees of SpecDay: unset, or 13:00-18:00
DayShifts == { [startTime |-> None, endTime |-> None],
               [startTime |-> <<13, 0>>, endTime |-> <<18, 0>>] }

\* An attendance subdocument none of whose fields has been assigned
EmptyDay == [date |-> 0, loginTime |-> None, logoutTime |-> None,
             isPresent |-> FALSE, status |-> "absent", lateMinutes |-> 0,
             earlyLeaveMinutes |-> None, breaks |-> <<>>, totalBreakTime |-> 0,
             hoursWorked |-> None, overtimeHours |-> None]

\* Object.assign(target, source)
ObjectAssign(target, source) ==
  [f \in DOMAIN target |-> IF f \in DOMAIN source THEN source[f] ELSE target[f]]

\* What findById resolves to for an id that is not in the collection
NoDoc == [found |-> FALSE, isActive |-> FALSE,
          shiftTiming |-> [startTime |-> None, endTime |-> None],
          attendance |-> <<>>]

\* Employee.findById(id)
findById(id) == IF id \in Emps THEN db[id] ELSE NoDoc

\* FindAttendance that takes the latest record, whatever its date
FindAttendance_latest(attendance, t) == Len(attendance)

\* employee.attendance.find(att => att.date.toDateString() === t.toDateString()):
\* the index of the first match, 0 when there is none
FindAttendance(attendance, t) ==
  IF \E i \in 1..Len(attendance) : SameDate(attendance[i].date, t)
  THEN CHOOSE i \in 1..Len(attendance) :
         /\ SameDate(attendance[i].date, t)
         /\ \A j \in 1..(i - 1) : ~SameDate(attendance[j].date, t)
  ELSE 0

\* breaks.find(b => !b.endTime): index of the first open break, 0 when none
FindOngoingBreak(breaks) ==
  IF \E i \in 1..Len(breaks) : ~IsSet(breaks[i].endTime)
  THEN CHOOSE i \in 1..Len(breaks) :
         /\ ~IsSet(breaks[i].endTime)
         /\ \A j \in 1..(i - 1) : IsSet(breaks[j].endTime)
  ELSE 0

\* breaks.reduce((total, b) => total + (b.duration || 0), 0)
RECURSIVE SumDurations(_)
SumDurations(breaks) ==
  IF breaks = <<>> THEN 0
  ELSE (IF IsSet(Head(breaks).duration) THEN Val(Head(breaks).duration) ELSE 0)
       + SumDurations(Tail(breaks))

\* shiftTiming.startTime || '09:00' and shiftTiming.endTime || '18:00'
ShiftStart(employee) ==
  IF IsSet(employee.shiftTiming.startTime) THEN employee.shiftTiming.startTime
  ELSE <<9, 0>>
ShiftEnd(employee) ==
  IF IsSet(employee.shiftTiming.endTime) THEN employee.shiftTiming.endTime
  ELSE <<18, 0>>

\* d = new Date(today); d.setHours(hm[1], hm[2], 0, 0)
SetHours(today, hm) == today + hm[1] * 3600 + hm[2] * 60

-----------------------------------------------------------------------------
(* The synchronous part of each handler, run on the handler's private copy  *)
(* `employee` at wall-clock reading `now`.  The result is the message of    *)
(* the error response, or "save" with the attendance array the handler then *)
(* hands to employee.save().                                                *)

Reply(message, attendance) == [message |-> message, attendance |-> attendance]

\* attendanceData with Math.round in place of Math.floor
attendanceData_roundLate(employee, now) ==
  LET today == Midnight(now)
      shiftStartTime == SetHours(today, ShiftStart(employee))
      lateMinutes == Max(0, RoundDiv(now - shiftStartTime, 60))
  IN [date |-> today,
      loginTime |-> Some(now),
      isPresent |-> TRUE,
      status |-> IF lateMinutes > 15 THEN "late" ELSE "present",
      lateMinutes |-> lateMinutes,
      breaks |-> <<>>,
      totalBreakTime |-> 0]

\* attendanceData that also writes hoursWorked: 0 and overtimeHours: 0
attendanceData_zeroHours(employee, now) ==
  LET today == Midnight(now)
      shiftStartTime == SetHours(today, ShiftStart(employee))
      lateMinutes == Max(0, FloorDiv(now - shiftStartTime, 60))
  IN [date |-> today,
      loginTime |-> Some(now),
      isPresent |-> TRUE,
      status |-> IF lateMinutes > 15 THEN "late" ELSE "present",
      lateMinutes |-> lateMinutes,
      breaks |-> <<>>,
      totalBreakTime |-> 0,
      hoursWorked |-> Some(0),
      overtimeHours |-> Some(0)]

\* lines 315-338: the object a check-in writes
attendanceData(employee, now) ==
  LET today == Midnight(now)
      shiftStartTime == SetHours(today, ShiftStart(employee))
      lateMinutes == Max(0, FloorDiv(now - shiftStartTime, 60))
  IN [date |-> today,
      loginTime |-> Some(now),
      isPresent |-> TRUE,
      status |-> IF lateMinutes > 15 THEN "late" ELSE "present",
      lateMinutes |-> lateMinutes,
      breaks |-> <<>>,
      totalBreakTime |-> 0]

\* RecordCheckin without its Object.assign branch: a record of today that has
\* no loginTime is not reused, a second one is pushed
RecordCheckin_alwaysPush(employee, now) ==
  LET today == Midnight(now)
      i == FindAttendance(employee.attendance, today)
  IN IF i # 0 /\ IsSet(employee.attendance[i].loginTime)
     THEN Reply("Already checked in today", employee.attendance)
     ELSE Reply("save", Append(employee.attendance,
                               ObjectAssign(EmptyDay, attendanceData(employee, now))))

\* RecordCheckin without its duplicate guard: today's record is overwritten
RecordCheckin_noGuard(employee, now) ==
  LET today == Midnight(now)
      i == FindAttendance(employee.attendance, today)
  IN IF i # 0
     THEN Reply("save", [employee.attendance EXCEPT
                           ![i] = ObjectAssign(@, attendanceData(employee, now))])
     ELSE Reply("save", Append(employee.attendance,
                               ObjectAssign(EmptyDay, attendanceData(employee, now))))

\* lines 300-344: the duplicate guard and the write of check-in
RecordCheckin(employee, now) ==
  LET today == Midnight(now)
      i == FindAttendance(employee.attendance, today)
  IN IF i # 0 /\ IsSet(employee.attendance[i].loginTime)
     THEN Reply("Already checked in today", employee.attendance)
     ELSE IF i # 0
     THEN Reply("save", [employee.attendance EXCEPT
                           ![i] = ObjectAssign(@, attendanceData(employee, now))])
     ELSE Reply("save", Append(employee.attendance,
                               ObjectAssign(EmptyDay, attendanceData(employee, now))))

\* router.post('/:id/checkin')
Checkin(employee, now) ==
  IF ~employee.found THEN Reply("Employee not found", employee.attendance)
  ELSE IF ~employee.isActive
  THEN Reply("Cannot check in inactive employee", employee.attendance)
  ELSE RecordCheckin(employee, now)

\* EndOngoingBreak that stores the closed break's duration as the day's total
EndOngoingBreak_lastOnly(todayAttendance, now) ==
  LET b == FindOngoingBreak(todayAttendance.breaks)
  IN IF b = 0 THEN todayAttendance
     ELSE LET duration == RoundDiv(now - todayAttendance.breaks[b].startTime, 60)
          IN [todayAttendance EXCEPT !.breaks[b].endTime = Some(now),
                                     !.breaks[b].duration = Some(duration),
                                     !.totalBreakTime = duration]

\* lines 390-400: end any ongoing break
EndOngoingBreak(todayAttendance, now) ==
  LET b == FindOngoingBreak(todayAttendance.breaks)
  IN IF b = 0 THEN todayAttendance
     ELSE LET breaks == [todayAttendance.breaks EXCEPT
                           ![b].endTime = Some(now),
                           ![b].duration =
                             Some(RoundDiv(now - todayAttendance.breaks[b].startTime, 60))]
          IN [todayAttendance EXCEPT !.breaks = breaks,
                                     !.totalBreakTime = SumDurations(breaks)]

\* CloseDay that tests early leave before overtime
CloseDay_earlyLeaveFirst(employee, day, now) ==
  LET today == Midnight(now)
      workedSeconds == (now - Val(day.loginTime)) - 60 * day.totalBreakTime
      startHM == ShiftStart(employee)
      endHM == ShiftEnd(employee)
      shiftEndTime == SetHours(today, endHM)
      standardShiftSeconds ==
        ((endHM[1] * 60 + endHM[2]) - (startHM[1] * 60 + startHM[2])) * 60
      overtimeSeconds == Max(0, workedSeconds - standardShiftSeconds)
      earlyLeaveMinutes == Max(0, FloorDiv(shiftEndTime - now, 60))
      closed == [day EXCEPT
                   !.logoutTime = Some(now),
                   !.hoursWorked = Some(RoundDiv(workedSeconds, 36)),
                   !.overtimeHours = Some(RoundDiv(overtimeSeconds, 36))]
  IN IF earlyLeaveMinutes > 30
     THEN [closed EXCEPT !.status = "early-leave",
                         !.earlyLeaveMinutes = Some(earlyLeaveMinutes)]
     ELSE IF overtimeSeconds > 1800
     THEN [closed EXCEPT !.status = "overtime"]
     ELSE IF workedSeconds < 4 * 3600
     THEN [closed EXCEPT !.status = "half-day"]
     ELSE closed

\* CloseDay that does not subtract the breaks from the elapsed time
CloseDay_grossHours(employee, day, now) ==
  LET today == Midnight(now)
      workedSeconds == now - Val(day.loginTime)
      startHM == ShiftStart(employee)
      endHM == ShiftEnd(employee)
      shiftEndTime == SetHours(today, endHM)
      standardShiftSeconds ==
        ((endHM[1] * 60 + endHM[2]) - (startHM[1] * 60 + startHM[2])) * 60
      overtimeSeconds == Max(0, workedSeconds - standardShiftSeconds)
      earlyLeaveMinutes == Max(0, FloorDiv(shiftEndTime - now, 60))
      closed == [day EXCEPT
                   !.logoutTime = Some(now),
                   !.hoursWorked = Some(RoundDiv(workedSeconds, 36)),
                   !.overtimeHours = Some(RoundDiv(overtimeSeconds, 36))]
  IN IF overtimeSeconds > 1800
     THEN [closed EXCEPT !.status = "overtime"]
     ELSE IF earlyLeaveMinutes > 30
     THEN [closed EXCEPT !.status = "early-leave",
                         !.earlyLeaveMinutes = Some(earlyLeaveMinutes)]
     ELSE IF workedSeconds < 4 * 3600
     THEN [closed EXCEPT !.status = "half-day"]
     ELSE closed

\* lines 402-442: worked time, overtime, early leave and the final status
CloseDay(employee, day, now) ==
  LET today == Midnight(now)
      \* hoursWorked * 3600, exactly
      workedSeconds == (now - Val(day.loginTime)) - 60 * day.totalBreakTime
      startHM == ShiftStart(employee)
      endHM == ShiftEnd(employee)
      shiftEndTime == SetHours(today, endHM)
      \* standardShiftHours * 3600
      standardShiftSeconds ==
        ((endHM[1] * 60 + endHM[2]) - (startHM[1] * 60 + startHM[2])) * 60
      overtimeSeconds == Max(0, workedSeconds - standardShiftSeconds)
      earlyLeaveMinutes == Max(0, FloorDiv(shiftEndTime - now, 60))
      closed == [day EXCEPT
                   !.logoutTime = Some(now),
                   !.hoursWorked = Some(RoundDiv(workedSeconds, 36)),
                   !.overtimeHours = Some(RoundDiv(overtimeSeconds, 36))]
  IN IF overtimeSeconds > 1800
     THEN [closed EXCEPT !.status = "overtime"]
     ELSE IF earlyLeaveMinutes > 30
     THEN [closed EXCEPT !.status = "early-leave",
                         !.earlyLeaveMinutes = Some(earlyLeaveMinutes)]
     ELSE IF workedSeconds < 4 * 3600
     THEN [closed EXCEPT !.status = "half-day"]
     ELSE closed

\* Checkout without its 'Already checked out today' guard
Checkout_noLogoutGuard(employee, now) ==
  LET today == Midnight(now)
      i == FindAttendance(employee.attendance, today)
  IN IF ~employee.found THEN Reply("Employee not found", employee.attendance)
     ELSE IF i = 0 \/ ~IsSet(employee.attendance[i].loginTime)
     THEN Reply("Not checked in today", employee.attendance)
     ELSE Reply("save", [employee.attendance EXCEPT
            ![i] = CloseDay(employee, EndOngoingBreak(@, now), now)])

\* Checkout that leaves an ongoing break open
Checkout_keepOpenBreak(employee, now) ==
  LET today == Midnight(now)
      i == FindAttendance(employee.attendance, today)
  IN IF ~employee.found THEN Reply("Employee not found", employee.attendance)
     ELSE IF i = 0 \/ ~IsSet(employee.attendance[i].loginTime)
     THEN Reply("Not checked in today", employee.attendance)
     ELSE IF IsSet(employee.attendance[i].logoutTime)
     THEN Reply("Already checked out today", employee.attendance)
     ELSE Reply("save", [employee.attendance EXCEPT ![i] = CloseDay(employee, @, now)])

\* Checkout that computes the worked time before it ends the ongoing break
Checkout_closeAfter(employee, now) ==
  LET today == Midnight(now)
      i == FindAttendance(employee.attendance, today)
  IN IF ~employee.found THEN Reply("Employee not found", employee.attendance)
     ELSE IF i = 0 \/ ~IsSet(employee.attendance[i].loginTime)
     THEN Reply("Not checked in today", employee.attendance)
     ELSE IF IsSet(employee.attendance[i].logoutTime)
     THEN Reply("Already checked out today", employee.attendance)
     ELSE Reply("save", [employee.attendance EXCEPT
            ![i] = EndOngoingBreak(CloseDay(employee, @, now), now)])

\* router.post('/:id/checkout')
Checkout(employee, now) ==
  LET today == Midnight(now)
      i == FindAttendance(employee.attendance, today)
  IN IF ~employee.found THEN Reply("Employee not found", employee.attendance)
     ELSE IF i = 0 \/ ~IsSet(employee.attendance[i].loginTime)
     THEN Reply("Not checked in today", employee.attendance)
     ELSE IF IsSet(employee.attendance[i].logoutTime)
     THEN Reply("Already checked out today", employee.attendance)
     ELSE Reply("save", [employee.attendance EXCEPT
            ![i] = CloseDay(employee, EndOngoingBreak(@, now), now)])

\* BreakStart without its 'Break already in progress' guard
BreakStart_noOngoingCheck(employee, type, now) ==
  LET i == FindAttendance(employee.attendance, now)
  IN IF ~employee.found THEN Reply("Employee not found", employee.attendance)
     ELSE IF i = 0 \/ ~IsSet(employee.attendance[i].loginTime)
     THEN Reply("Employee not checked in today", employee.attendance)
     ELSE IF IsSet(employee.attendance[i].logoutTime)
     THEN Reply("Employee already checked out", employee.attendance)
     ELSE Reply("save", [employee.attendance EXCEPT
            ![i].breaks = Append(@, [startTime |-> now, endTime |-> None,
                                     duration |-> None, type |-> type])])

\* router.post('/:id/break/start'), after the break type was accepted
BreakStart(employee, type, now) ==
  LET i == FindAttendance(employee.attendance, now)
  IN IF ~employee.found THEN Reply("Employee not found", employee.attendance)
     ELSE IF i = 0 \/ ~IsSet(employee.attendance[i].loginTime)
     THEN Reply("Employee not checked in today", employee.attendance)
     ELSE IF IsSet(employee.attendance[i].logoutTime)
     THEN Reply("Employee already checked out", employee.attendance)
     ELSE IF FindOngoingBreak(employee.attendance[i].breaks) # 0
     THEN Reply("Break already in progress", employee.attendance)
     ELSE Reply("save", [employee.attendance EXCEPT
            ![i].breaks = Append(@, [startTime |-> now, endTime |-> None,
                                     duration |-> None, type |-> type])])

\* BreakEnd that ends the latest break of the day, open or not
BreakEnd_lastBreak(employee, now) ==
  LET i == FindAttendance(employee.attendance, now)
  IN IF ~employee.found THEN Reply("Employee not found", employee.attendance)
     ELSE IF i = 0
     THEN Reply("No attendance record found for today", employee.attendance)
     ELSE IF Len(employee.attendance[i].breaks) = 0
     THEN Reply("No ongoing break found", employee.attendance)
     ELSE LET b == Len(employee.attendance[i].breaks)
              start == employee.attendance[i].breaks[b].startTime
              breaks == [employee.attendance[i].breaks EXCEPT
                           ![b].endTime = Some(now),
                           ![b].duration = Some(RoundDiv(now - start, 60))]
          IN Reply("save", [employee.attendance EXCEPT
                              ![i].breaks = breaks,
                              ![i].totalBreakTime = SumDurations(breaks)])

\* router.post('/:id/break/end')
BreakEnd(employee, now) ==
  LET i == FindAttendance(employee.attendance, now)
  IN IF ~employee.found THEN Reply("Employee not found", employee.attendance)
     ELSE IF i = 0
     THEN Reply("No attendance record found for today", employee.attendance)
     ELSE IF FindOngoingBreak(employee.attendance[i].breaks) = 0
     THEN Reply("No ongoing break found", employee.attendance)
     ELSE Reply("save", [employee.attendance EXCEPT ![i] = EndOngoingBreak(@, now)])

-----------------------------------------------------------------------------
(* Requests *)

Reqs == {1, 2}     \* requests the server has in flight at once

SingleOps == {"checkin", "checkout", "breakstart", "breakend"}
SingleIds == {"e1", "e9"}      \* ids the single-employee requests name
BulkInputs == {<<>>, <<"e1">>, <<"e1", "e9">>}   \* req.body.employeeIds

Idle == [pc |-> "idle", op |-> "none", id |-> "none", type |-> "none",
         doc |-> NoDoc, at |-> None, ids |-> <<>>, queue |-> <<>>,
         successful |-> {}, failed |-> {}]

\* sendResponse: the request answered and the message; for bulk check-in also
\* the ids of the `successful` and `failed` lists and summary.total
Response(op, id, message) ==
  [op |-> op, id |-> id, message |-> message,
   successful |-> {}, failed |-> {}, total |-> 0]

NoResponse == Response("none", "none", "none")

DayOf(t) == t \div DaySeconds

\* One more `op` of employee `id`, issued on the calendar day of instant t,
\* has been answered with success
Count(bag, op, id, t) ==
  IF op = "breakend" THEN bag ELSE bag (+) SetToBag({<<op, id, DayOf(t)>>})

\* A day record that holds no check-in yet (isPresent false, status absent)
AbsentDay(t) == [EmptyDay EXCEPT !.date = Midnight(t)]

\* The collection when the server starts: active employees; "e1" has either
\* no attendance yet or a record of today that holds no check-in
Init ==
  /\ clock = 1
  /\ \E sh \in Shifts, att \in {<<>>, <<AbsentDay(TimeAt(1))>>} :
        db = [id \in Emps |->
                [found |-> TRUE, isActive |-> TRUE, shiftTiming |-> sh,
                 attendance |-> IF id = "e1" THEN att ELSE <<>>]]
  /\ req = [r \in Reqs |-> Idle]
  /\ last = NoResponse
  /\ done = EmptyBag
  /\ arrived = 0

\* Wall-clock time passes
Tick ==
  /\ clock < MaxTick
  /\ clock' = clock + 1
  /\ last' = NoResponse
  /\ UNCHANGED <<db, req, done, arrived>>

\* Slots are interchangeable: an arriving request takes the lowest free one
FreeSlot(r) ==
  /\ req[r].pc = "idle"
  /\ \A r2 \in Reqs : r2 < r => req[r2].pc # "idle"

\* A single-employee request reaches its handler, which calls findById and
\* awaits the document
Arrive(r, op, id, type) ==
  /\ FreeSlot(r)
  /\ op = "breakstart" =>
       \A i \in 1..Len(findById(id).attendance) :
          Len(findById(id).attendance[i].breaks) < MaxBreaks
  /\ req' = [req EXCEPT ![r] = [Idle EXCEPT !.pc = "loaded", !.op = op, !.id = id,
                                            !.type = type, !.doc = findById(id)]]
  /\ last' = NoResponse
  /\ UNCHANGED <<db, clock, done>>

\* lines 471-476: break/start rejects an unknown break type before it looks
\* the employee up
ArriveBreakStart(r, id, type) ==
  IF type \in validBreakTypes
  THEN Arrive(r, "breakstart", id, type)
  ELSE /\ FreeSlot(r)
       /\ last' = Response("breakstart", id, "Invalid break type")
       /\ UNCHANGED <<db, clock, req, done>>

\* The handler's synchronous code between its two awaits
Outcome(q, now) ==
  CASE q.op = "checkin" -> Checkin(q.doc, now)
    [] q.op = "checkout" -> Checkout(q.doc, now)
    [] q.op = "breakstart" -> BreakStart(q.doc, q.type, now)
    [] q.op = "breakend" -> BreakEnd(q.doc, now)

\* findById has resolved: the handler reads the clock, then either answers with
\* an error or changes its copy and calls employee.save()
Handle(r) ==
  /\ req[r].pc = "loaded"
  /\ LET out == Outcome(req[r], Now)
     IN IF out.message = "save"
        THEN /\ req' = [req EXCEPT ![r].pc = "saving", ![r].at = Some(Now),
                                   ![r].doc.attendance = out.attendance]
             /\ last' = NoResponse
        ELSE /\ req' = [req EXCEPT ![r] = Idle]
             /\ last' = Response(req[r].op, req[r].id, out.message)
  /\ UNCHANGED <<db, clock, done, arrived>>

\* employee.save(): the attendance history of the copy replaces the stored one
SaveEmployee(store, id, attendance) == [store EXCEPT ![id].attendance = attendance]

\* save has resolved and the success response is sent
Save(r) ==
  /\ req[r].pc = "saving"
  /\ db' = SaveEmployee(db, req[r].id, req[r].doc.attendance)
  /\ req' = [req EXCEPT ![r] = Idle]
  /\ last' = Response(req[r].op, req[r].id, "success")
  /\ done' = Count(done, req[r].op, req[r].id, Val(req[r].at))
  /\ UNCHANGED <<clock, arrived>>

-----------------------------------------------------------------------------
(* Bulk check-in, router.post('/bulk/checkin') *)

MaxBulkIds == 50

\* The orders in which Employee.find may return the documents of the set S
Orders(S) ==
  {q \in [1..Cardinality(S) -> S] : \A i, j \in DOMAIN q : i # j => q[i] # q[j]}

\* lines 1302-1311: the loop is over and the summary is sent
BulkResponse(q) ==
  [Response("bulk", "none", "Bulk check-in completed") EXCEPT
     !.successful = q.successful, !.failed = q.failed, !.total = Len(q.ids)]

\* The slot after one iteration of the loop: the next iteration, or idle when
\* the iteration was the last one
BulkAdvance(q) ==
  IF Len(q.queue) > 1
  THEN [q EXCEPT !.pc = "bulkloop", !.queue = Tail(@), !.id = "none", !.doc = NoDoc]
  ELSE Idle

\* lines 1214-1232: the id list is validated, the clock is read once for the
\* whole request, and the find is issued
BulkArrive(r, ids) ==
  /\ FreeSlot(r)
  /\ IF Len(ids) = 0
     THEN /\ last' = Response("bulk", "none", "Employee IDs array is required")
          /\ UNCHANGED req
     ELSE IF Len(ids) > MaxBulkIds
     THEN /\ last' = Response("bulk", "none",
                              "Maximum 50 employees can be processed at once")
          /\ UNCHANGED req
     ELSE /\ req' = [req EXCEPT ![r] = [Idle EXCEPT !.pc = "bulkfind", !.op = "bulk",
                                                    !.at = Some(Now), !.ids = ids]]
          /\ last' = NoResponse
  /\ UNCHANGED <<db, clock, done>>

\* Employee.find({_id: {$in: employeeIds}, isActive: true}) has resolved
BulkFind(r) ==
  /\ req[r].pc = "bulkfind"
  /\ LET wanted == {req[r].ids[i] : i \in 1..Len(req[r].ids)}
         hits == {id \in Emps : id \in wanted /\ db[id].isActive}
     IN \E order \in Orders(hits) :
          LET q == [req[r] EXCEPT !.pc = "bulkloop", !.queue = order]
          IN IF hits = {}
             THEN /\ req' = [req EXCEPT ![r] = Idle]
                  /\ last' = BulkResponse(q)
             ELSE /\ req' = [req EXCEPT ![r] = [q EXCEPT
                               !.queue = [i \in DOMAIN order |->
                                            [id |-> order[i], doc |-> db[order[i]]]]]]
                  /\ last' = NoResponse
  /\ UNCHANGED <<db, clock, done, arrived>>

\* lines 1249-1267: the object one iteration of bulk check-in writes; `now`
\* is the reading taken before the find
bulkAttendanceData(employee, now) ==
  LET today == Midnight(now)
      shiftStartTime == SetHours(today, ShiftStart(employee))
      lateMinutes == Max(0, FloorDiv(now - shiftStartTime, 60))
  IN [date |-> today,
      loginTime |-> Some(now),
      isPresent |-> TRUE,
      status |-> IF lateMinutes > 15 THEN "late" ELSE "present",
      lateMinutes |-> lateMinutes,
      breaks |-> <<>>,
      totalBreakTime |-> 0]

\* BulkCheckinOne that checks in again an employee who is already checked in
BulkCheckinOne_overwrite(employee, now) ==
  LET today == Midnight(now)
      i == FindAttendance(employee.attendance, today)
  IN IF i # 0
     THEN Reply("save", [employee.attendance EXCEPT
                           ![i] = ObjectAssign(@, bulkAttendanceData(employee, now))])
     ELSE Reply("save", Append(employee.attendance,
                               ObjectAssign(EmptyDay, bulkAttendanceData(employee, now))))

\* lines 1236-1281: the duplicate guard and the write of one iteration of bulk
\* check-in
BulkCheckinOne(employee, now) ==
  LET today == Midnight(now)
      i == FindAttendance(employee.attendance, today)
  IN IF i # 0 /\ IsSet(employee.attendance[i].loginTime)
     THEN Reply("Already checked in today", employee.attendance)
     ELSE IF i # 0
     THEN Reply("save", [employee.attendance EXCEPT
                           ![i] = ObjectAssign(@, bulkAttendanceData(employee, now))])
     ELSE Reply("save", Append(employee.attendance,
                               ObjectAssign(EmptyDay, bulkAttendanceData(employee, now))))

\* BulkStep whose loop ends at the first employee that is already checked in
BulkStep_abortOnFailure(r) ==
  /\ req[r].pc = "bulkloop"
  /\ LET employee == Head(req[r].queue)
         out == BulkCheckinOne(employee.doc, Val(req[r].at))
     IN IF out.message = "save"
        THEN /\ req' = [req EXCEPT ![r].pc = "bulksave", ![r].id = employee.id,
                          ![r].doc = [employee.doc EXCEPT !.attendance = out.attendance]]
             /\ last' = NoResponse
        ELSE LET q == [req[r] EXCEPT !.failed = @ \cup {employee.id}]
             IN /\ req' = [req EXCEPT ![r] = Idle]
                /\ last' = BulkResponse(q)
  /\ UNCHANGED <<db, clock, done, arrived>>

\* lines 1234-1283: one iteration up to its await: the employee is reported as
\* already checked in, or its copy is changed and employee.save() is called
BulkStep(r) ==
  /\ req[r].pc = "bulkloop"
  /\ LET employee == Head(req[r].queue)
         out == BulkCheckinOne(employee.doc, Val(req[r].at))
     IN IF out.message = "save"
        THEN /\ req' = [req EXCEPT ![r].pc = "bulksave", ![r].id = employee.id,
                          ![r].doc = [employee.doc EXCEPT !.attendance = out.attendance]]
             /\ last' = NoResponse
        ELSE LET q == [req[r] EXCEPT !.failed = @ \cup {employee.id}]
             IN /\ req' = [req EXCEPT ![r] = BulkAdvance(q)]
                /\ IF Len(q.queue) > 1 THEN last' = NoResponse
                   ELSE last' = BulkResponse(q)
  /\ UNCHANGED <<db, clock, done, arrived>>

\* lines 1284-1292: the save of one iteration has resolved
BulkSave(r) ==
  /\ req[r].pc = "bulksave"
  /\ db' = SaveEmployee(db, req[r].id, req[r].doc.attendance)
  /\ done' = Count(done, "bulkcheckin", req[r].id, Val(req[r].at))
  /\ LET q == [req[r] EXCEPT !.successful = @ \cup {req[r].id}]
     IN /\ req' = [req EXCEPT ![r] = BulkAdvance(q)]
        /\ IF Len(q.queue) > 1 THEN last' = NoResponse
           ELSE last' = BulkResponse(q)
  /\ UNCHANGED <<clock, arrived>>

-----------------------------------------------------------------------------
(* The server: requests arrive at any time and interleave at their awaits *)

Arrivals ==
  \/ \E r \in Reqs, op \in SingleOps \ {"breakstart"}, id \in SingleIds :
        Arrive(r, op, id, "none")
  \/ \E r \in Reqs, id \in SingleIds, type \in TypeInputs : ArriveBreakStart(r, id, type)
  \/ \E r \in Reqs, ids \in BulkInputs : BulkArrive(r, ids)

Progress ==
  \/ \E r \in Reqs : Handle(r)
  \/ \E r \in Reqs : Save(r)
  \/ \E r \in Reqs : BulkFind(r)
  \/ \E r \in Reqs : BulkStep(r)
  \/ \E r \in Reqs : BulkSave(r)

\* Up to MaxRequests requests, overlapping in any way
Next ==
  \/ Tick
  \/ arrived < MaxRequests /\ arrived' = arrived + 1 /\ Arrivals
  \/ Progress

Spec == Init /\ [][Next]_vars

\* The same server when its callers send one request at a time, any number of
\* them: a request arrives only when no other is in flight
NoneInFlight == \A r \in Reqs : req[r].pc = "idle"

NextSeq ==
  \/ Tick
  \/ NoneInFlight /\ Arrivals /\ UNCHANGED arrived
  \/ Progress

SpecSeq == Init /\ [][NextSeq]_vars

-----------------------------------------------------------------------------
(* One employee followed through FineLine, one request at a time: the shift *)
(* is unset or 13:00-18:00, and the employee may be deactivated             *)

\* router.delete('/:id'): findByIdAndUpdate sets isActive to false
Deactivate(id) ==
  /\ id \in Emps
  /\ db[id].isActive
  /\ db' = [db EXCEPT ![id].isActive = FALSE]
  /\ last' = Response("deactivate", id, "Employee deactivated successfully")
  /\ UNCHANGED <<clock, req, done, arrived>>

InitDay ==
  /\ clock = -Len(FineLine)
  /\ \E sh \in DayShifts :
        db = [id \in Emps |->
                [found |-> TRUE, isActive |-> TRUE, shiftTiming |-> sh,
                 attendance |-> <<>>]]
  /\ req = [r \in Reqs |-> Idle]
  /\ last = NoResponse
  /\ done = EmptyBag
  /\ arrived = 0

\* Wall-clock time passes to the next reading of FineLine
TickDay ==
  /\ clock < -1
  /\ clock' = clock + 1
  /\ last' = NoResponse
  /\ UNCHANGED <<db, req, done, arrived>>

ArrivalsDay ==
  \/ \E r \in Reqs, op \in SingleOps \ {"breakstart"} : Arrive(r, op, "e1", "none")
  \/ \E r \in Reqs : Arrive(r, "breakstart", "e1", "lunch")
  \/ \E r \in Reqs : BulkArrive(r, <<"e1">>)

NextDay ==
  \/ TickDay
  \/ NoneInFlight /\ ArrivalsDay /\ UNCHANGED arrived
  \/ NoneInFlight /\ Deactivate("e1")
  \/ Progress

SpecDay == InitDay /\ [][NextDay]_vars

-----------------------------------------------------------------------------
(* Saves that fail.  employee.save() rejects, nothing is written, and the   *)
(* handler's catch block answers (lines 356-358, 463-465, 519-521, 565-567) *)

\* The message handleError sends for an error that is no ValidationError,
\* CastError or duplicate key
FailureMessage(op) ==
  CASE op = "checkin" -> "Check-in failed"
    [] op = "checkout" -> "Check-out failed"
    [] op = "breakstart" -> "Failed to start break"
    [] op = "breakend" -> "Failed to end break"

\* SaveFail that has written the copy before it rejects
SaveFail_written(r) ==
  /\ req[r].pc = "saving"
  /\ db' = SaveEmployee(db, req[r].id, req[r].doc.attendance)
  /\ req' = [req EXCEPT ![r] = Idle]
  /\ last' = Response(req[r].op, req[r].id, FailureMessage(req[r].op))
  /\ UNCHANGED <<clock, done, arrived>>

\* employee.save() has rejected
SaveFail(r) ==
  /\ req[r].pc = "saving"
  /\ req' = [req EXCEPT ![r] = Idle]
  /\ last' = Response(req[r].op, req[r].id, FailureMessage(req[r].op))
  /\ UNCHANGED <<db, clock, done, arrived>>

\* lines 1293-1299: the save of one iteration of bulk check-in has rejected;
\* the catch block of the iteration records the employee as failed
BulkSaveFail(r) ==
  /\ req[r].pc = "bulksave"
  /\ LET q == [req[r] EXCEPT !.failed = @ \cup {req[r].id}]
     IN /\ req' = [req EXCEPT ![r] = BulkAdvance(q)]
        /\ IF Len(q.queue) > 1 THEN last' = NoResponse
           ELSE last' = BulkResponse(q)
  /\ UNCHANGED <<db, clock, done, arrived>>

\* The four attendance requests of "e1", one at a time, any save of which
\* may fail
ArrivalsFail ==
  \/ \E r \in Reqs, op \in SingleOps \ {"breakstart"} : Arrive(r, op, "e1", "none")
  \/ \E r \in Reqs : Arrive(r, "breakstart", "e1", "lunch")

NextFail ==
  \/ Tick
  \/ NoneInFlight /\ ArrivalsFail /\ UNCHANGED arrived
  \/ \E r \in Reqs : Handle(r)
  \/ \E r \in Reqs : Save(r)
  \/ \E r \in Reqs : SaveFail(r)

SpecFail == Init /\ [][NextFail]_vars

\* req.body.employeeIds of the bulk check-ins of SpecBulk
BulkIdLists == {<<"e1", "e2">>, <<"e2", "e9">>, <<"e2", "e2">>}

\* Bulk check-ins over two employees, one request at a time: "e1" may have
\* checked in alone before, "e2" may be deactivated, any save may fail
ArrivalsBulk ==
  \/ \E r \in Reqs : Arrive(r, "checkin", "e1", "none")
  \/ \E r \in Reqs, ids \in BulkIdLists : BulkArrive(r, ids)

NextBulk ==
  \/ Tick
  \/ NoneInFlight /\ ArrivalsBulk /\ UNCHANGED arrived
  \/ NoneInFlight /\ Deactivate("e2")
  \/ Progress
  \/ \E r \in Reqs : SaveFail(r)
  \/ \E r \in Reqs : BulkSaveFail(r)

SpecBulk == Init /\ [][NextBulk]_vars

-----------------------------------------------------------------------------
(* Reports.  Each handler below awaits one query and computes its response  *)
(* from the documents the query returned; none of them calls save.  Hours   *)
(* are hundredths of an hour and money is hundredths of the currency unit.  *)
(* Names, departments and roles, the per-department breakdowns and the      *)
(* salary block of the comprehensive report are left out.                   *)

\* sendResponse with a data object; the period of a report is the date range
\* it was asked for, <<>> when it is the current month
DataResponse(op, id, message, data) ==
  [op |-> op, id |-> id, message |-> message,
   successful |-> {}, failed |-> {}, total |-> 0, data |-> data]

Min(a, b) == IF a <= b THEN a ELSE b

\* array.reduce((sum, att) => sum + (att[field] || 0), 0) for an optional field
RECURSIVE SumOf(_, _)
SumOf(seq, field) ==
  IF seq = <<>> THEN 0
  ELSE (IF IsSet(Head(seq)[field]) THEN Val(Head(seq)[field]) ELSE 0)
       + SumOf(Tail(seq), field)

\* array.reduce((sum, att) => sum + (att.totalBreakTime || 0), 0)
RECURSIVE SumBreakTime(_)
SumBreakTime(seq) ==
  IF seq = <<>> THEN 0 ELSE Head(seq).totalBreakTime + SumBreakTime(Tail(seq))

\* array.sort((a, b) => b[key] - a[key]): descending, and stable
InsertDesc(sorted, x, key) ==
  LET n == Cardinality({i \in 1..Len(sorted) : sorted[i][key] >= x[key]})
  IN SubSeq(sorted, 1, n) \o <<x>> \o SubSeq(sorted, n + 1, Len(sorted))

RECURSIVE SortDesc(_, _)
SortDesc(seq, key) ==
  IF seq = <<>> THEN <<>>
  ELSE InsertDesc(SortDesc(SubSeq(seq, 1, Len(seq) - 1), key), seq[Len(seq)], key)

\* array.slice(0, n)
Slice(seq, n) == SubSeq(seq, 1, Min(n, Len(seq)))

\* employee.attendance.filter(att => att.date >= start && att.date <= end)
AttendanceInRange(attendance, start, end) ==
  SelectSeq(attendance, LAMBDA att : att.date >= start /\ att.date <= end)

\* AttendancePercentage with Math.floor in place of Math.round
AttendancePercentage_floor(presentDays, workingDays) ==
  IF workingDays > 0 THEN FloorDiv(100 * presentDays, workingDays) ELSE 0

\* lines 1091 and 1005: workingDays > 0 ? Math.round(presentDays / workingDays * 100) : 0
AttendancePercentage(presentDays, workingDays) ==
  IF workingDays > 0 THEN RoundDiv(100 * presentDays, workingDays) ELSE 0

\* PunctualityScore that forgets the days left early
PunctualityScore_lateOnly(presentDays, lateCount, earlyLeaveCount) ==
  IF presentDays > 0
  THEN RoundDiv(100 * (presentDays - lateCount), presentDays)
  ELSE 0

\* lines 1092 and 1007
PunctualityScore(presentDays, lateCount, earlyLeaveCount) ==
  IF presentDays > 0
  THEN RoundDiv(100 * (presentDays - lateCount - earlyLeaveCount), presentDays)
  ELSE 0

\* Employee.find({isActive: true}) returns these, in some order
ActiveEmps == {id \in Emps : db[id].isActive}

\* req.query.startDate and endDate, as instants; <<>> when they are not sent
RangeInputs == {<<>>, <<0, 0>>, <<0, DaySeconds>>, <<DaySeconds, 9 * DaySeconds>>}

\* lines 664-690: the date-range branch of router.get('/:id/attendance')
RangeFigures(employee, start, end) ==
  LET attendanceInRange == AttendanceInRange(employee.attendance, start, end)
      presentDays == Len(SelectSeq(attendanceInRange, LAMBDA att : att.isPresent))
      totalHours == SumOf(attendanceInRange, "hoursWorked")
  IN [period |-> <<start, end>>,
      attendance |-> attendanceInRange,
      presentDays |-> presentDays,
      totalHours |-> totalHours,
      overtimeHours |-> SumOf(attendanceInRange, "overtimeHours"),
      totalBreakTime |-> RoundDiv(100 * SumBreakTime(attendanceInRange), 60),
      lateCount |-> Len(SelectSeq(attendanceInRange, LAMBDA att : att.status = "late")),
      averageHours |-> IF presentDays > 0 THEN RoundDiv(totalHours, presentDays) ELSE 0]

\* employee.getMonthlyAttendance(month, year) for the month that holds every
\* day of the model, day 0 being its first day: the fold of spec 4.3, where
\* absentDays = daysElapsedInMonth - presentDays
getMonthlyAttendance(employee, now) ==
  LET presentDays == Len(SelectSeq(employee.attendance, LAMBDA att : att.isPresent))
      absentDays == (DayOf(now) + 1) - presentDays
      totalHours == SumOf(employee.attendance, "hoursWorked")
      lateCount == Len(SelectSeq(employee.attendance, LAMBDA att : att.status = "late"))
      earlyLeaveCount ==
        Len(SelectSeq(employee.attendance, LAMBDA att : att.status = "early-leave"))
  IN [period |-> None,
      presentDays |-> presentDays,
      absentDays |-> absentDays,
      totalHours |-> totalHours,
      overtimeHours |-> SumOf(employee.attendance, "overtimeHours"),
      lateCount |-> lateCount,
      earlyLeaveCount |-> earlyLeaveCount,
      attendancePercentage |-> AttendancePercentage(presentDays, presentDays + absentDays),
      punctualityScore |-> PunctualityScore(presentDays, lateCount, earlyLeaveCount),
      averageHours |-> IF presentDays > 0 THEN RoundDiv(totalHours, presentDays) ELSE 0]

\* router.get('/:id/attendance')
AttendanceReport(id, range) ==
  IF ~findById(id).found
  THEN DataResponse("attendance", id, "Employee not found", None)
  ELSE DataResponse("attendance", id, "Attendance retrieved successfully",
         IF range # None THEN RangeFigures(findById(id), range[1], range[2])
         ELSE getMonthlyAttendance(findById(id), Now))

\* GetAttendance that makes sure the day has a record and saves the document
GetAttendance_saves(id, range) ==
  /\ last' = AttendanceReport(id, range)
  /\ db' = IF id \in Emps /\ FindAttendance(db[id].attendance, Now) = 0
           THEN SaveEmployee(db, id, Append(db[id].attendance, AbsentDay(Now)))
           ELSE db
  /\ UNCHANGED <<clock, req, done, arrived>>

GetAttendance(id, range) ==
  /\ last' = AttendanceReport(id, range)
  /\ UNCHANGED <<db, clock, req, done, arrived>>

\* EmployeeDetails that counts a day as late by its lateMinutes and as left
\* early by its earlyLeaveMinutes, whatever its status
EmployeeDetails_byMinutes(id, emp, start, end) ==
  LET attendanceInRange == AttendanceInRange(emp.attendance, start, end)
      presentDays == Len(SelectSeq(attendanceInRange, LAMBDA att : att.isPresent))
      absentDays == Len(SelectSeq(attendanceInRange, LAMBDA att : ~att.isPresent))
      totalHours == SumOf(attendanceInRange, "hoursWorked")
      lateCount == Len(SelectSeq(attendanceInRange, LAMBDA att : att.lateMinutes > 15))
      earlyLeaveCount ==
        Len(SelectSeq(attendanceInRange, LAMBDA att : IsSet(att.earlyLeaveMinutes)))
      attendancePercentage == AttendancePercentage(presentDays, presentDays + absentDays)
      punctualityScore == PunctualityScore(presentDays, lateCount, earlyLeaveCount)
  IN [id |-> id,
      attendancePercentage |-> attendancePercentage,
      punctualityScore |-> punctualityScore,
      presentDays |-> presentDays,
      absentDays |-> absentDays,
      totalHours |-> totalHours,
      overtimeHours |-> SumOf(attendanceInRange, "overtimeHours"),
      lateCount |-> lateCount,
      earlyLeaveCount |-> earlyLeaveCount,
      \* Math.round((attendancePercentage * 0.4 + punctualityScore * 0.3
      \*             + Math.min(totalHours / 160, 1) * 100 * 0.3) * 100) / 100
      performanceScore |->
        RoundDiv(16 * (40 * attendancePercentage + 30 * punctualityScore)
                   + Min(3 * totalHours, 48000), 16)]

\* lines 1115-1168: the figures of one employee in the comprehensive report
EmployeeDetails(id, emp, start, end) ==
  LET attendanceInRange == AttendanceInRange(emp.attendance, start, end)
      presentDays == Len(SelectSeq(attendanceInRange, LAMBDA att : att.isPresent))
      absentDays == Len(SelectSeq(attendanceInRange, LAMBDA att : ~att.isPresent))
      totalHours == SumOf(attendanceInRange, "hoursWorked")
      lateCount == Len(SelectSeq(attendanceInRange, LAMBDA att : att.status = "late"))
      earlyLeaveCount ==
        Len(SelectSeq(attendanceInRange, LAMBDA att : att.status = "early-leave"))
      attendancePercentage == AttendancePercentage(presentDays, presentDays + absentDays)
      punctualityScore == PunctualityScore(presentDays, lateCount, earlyLeaveCount)
  IN [id |-> id,
      attendancePercentage |-> attendancePercentage,
      punctualityScore |-> punctualityScore,
      presentDays |-> presentDays,
      absentDays |-> absentDays,
      totalHours |-> totalHours,
      overtimeHours |-> SumOf(attendanceInRange, "overtimeHours"),
      lateCount |-> lateCount,
      earlyLeaveCount |-> earlyLeaveCount,
      \* Math.round((attendancePercentage * 0.4 + punctualityScore * 0.3
      \*             + Math.min(totalHours / 160, 1) * 100 * 0.3) * 100) / 100
      performanceScore |->
        RoundDiv(16 * (40 * attendancePercentage + 30 * punctualityScore)
                   + Min(3 * totalHours, 48000), 16)]

RECURSIVE SumField(_, _)
SumField(seq, field) ==
  IF seq = <<>> THEN 0 ELSE Head(seq)[field] + SumField(Tail(seq), field)

\* router.get('/reports/comprehensive') when Employee.find returned the active
\* employees in the order `order`
ComprehensiveReport(order, range) ==
  IF range = None
  THEN DataResponse("comprehensive", "none", "Start date and end date are required", None)
  ELSE IF range[1] >= range[2]
  THEN DataResponse("comprehensive", "none", "End date must be after start date", None)
  ELSE LET found == [i \in DOMAIN order |->
                       EmployeeDetails(order[i], db[order[i]], range[1], range[2])]
           \* sort works in place: the filter below reads the sorted array
           employeeDetails == SortDesc(found, "performanceScore")
       IN DataResponse("comprehensive", "none",
            "Comprehensive report generated successfully",
            [period |-> range,
             summary |->
               [totalEmployees |-> Len(order),
                totalWorkingDays |-> (range[2] - range[1] + DaySeconds - 1) \div DaySeconds,
                totalPresent |-> SumField(found, "presentDays"),
                totalAbsent |-> SumField(found, "absentDays"),
                totalHours |-> RoundDiv(SumField(found, "totalHours"), 100),
                totalOvertimeHours |-> RoundDiv(SumField(found, "overtimeHours"), 100)],
             topPerformers |-> Slice(employeeDetails, 10),
             attendanceIssues |->
               SelectSeq(employeeDetails,
                         LAMBDA emp : emp.attendancePercentage < 80 \/ emp.lateCount > 5),
             employeeDetails |-> employeeDetails])

\* The responses the comprehensive report may give in the current state
ComprehensiveReports(range) ==
  {ComprehensiveReport(order, range) : order \in Orders(ActiveEmps)}

GetComprehensive(range) ==
  /\ last' \in ComprehensiveReports(range)
  /\ UNCHANGED <<db, clock, req, done, arrived>>

\* lines 940-971: the metrics of one employee in the attendance statistics
EmployeeMetrics(id, emp, now) ==
  LET monthlyData == getMonthlyAttendance(emp, now)
  IN [id |-> id,
      attendancePercentage |-> monthlyData.attendancePercentage,
      punctualityScore |-> monthlyData.punctualityScore,
      presentDays |-> monthlyData.presentDays,
      absentDays |-> monthlyData.absentDays,
      lateCount |-> monthlyData.lateCount,
      earlyLeaveCount |-> monthlyData.earlyLeaveCount,
      totalHours |-> monthlyData.totalHours,
      overtimeHours |-> monthlyData.overtimeHours]

\* lines 1011-1014: Math.round((attendancePercentage * 0.7 + punctualityScore * 0.3) * 100) / 100
WithPerformanceScore(emp) ==
  [f \in DOMAIN emp \cup {"performanceScore"} |->
     IF f = "performanceScore"
     THEN 70 * emp.attendancePercentage + 30 * emp.punctualityScore
     ELSE emp[f]]

\* router.get('/stats/attendance') for the current month when Employee.find
\* returned the active employees in the order `order`
AttendanceStats(order) ==
  LET employeeMetrics == [i \in DOMAIN order |->
                            EmployeeMetrics(order[i], db[order[i]], Now)]
      totalPresentDays == SumField(employeeMetrics, "presentDays")
      totalPossibleDays == totalPresentDays + SumField(employeeMetrics, "absentDays")
      sortedByAttendance == SortDesc(employeeMetrics, "attendancePercentage")
      top == Slice(sortedByAttendance, 5)
  IN DataResponse("stats", "none", "Attendance statistics retrieved successfully",
       [period |-> None,
        totalEmployees |-> Len(order),
        overallStats |->
          [totalHours |-> SumField(employeeMetrics, "totalHours"),
           totalOvertimeHours |-> SumField(employeeMetrics, "overtimeHours"),
           averageAttendance |-> AttendancePercentage(totalPresentDays, totalPossibleDays),
           punctualityScore |->
             PunctualityScore(totalPresentDays,
                              SumField(employeeMetrics, "lateCount"),
                              SumField(employeeMetrics, "earlyLeaveCount"))],
        topPerformers |-> [i \in DOMAIN top |-> WithPerformanceScore(top[i])],
        concernedEmployees |->
          Slice(SelectSeq(sortedByAttendance,
                          LAMBDA emp : emp.attendancePercentage < 80
                                         \/ emp.punctualityScore < 70), 10)])

AttendanceStatsSet == {AttendanceStats(order) : order \in Orders(ActiveEmps)}

GetAttendanceStats ==
  /\ last' \in AttendanceStatsSet
  /\ UNCHANGED <<db, clock, req, done, arrived>>

\* A number that may be NaN: <<n>>, or <<>> for NaN
NaN == <<>>

\* employee.calculateSalary(month, year): steps 1, 2 and 4 of spec 4.4 with
\* hourlyRate unset; an unset base leaves baseSalary undefined
calculateSalary(employee, monthly) ==
  LET rate == IF IsSet(employee.salary.overtime) THEN Val(employee.salary.overtime) ELSE 0
      overtimePay == rate * monthly.overtimeHours
  IN [baseSalary |-> employee.salary.base,
      overtimePay |-> overtimePay,
      grossSalary |-> IF IsSet(employee.salary.base)
                      THEN Some(100 * Val(employee.salary.base) + overtimePay
                                  + 100 * employee.salary.bonus)
                      ELSE NaN]

\* lines 733-749 and 817-833: allowances, deductions, their totals and the net
\* salary
PayBlocks(employee, monthlyAttendance, salaryData) ==
  LET \* salaryData.baseSalary || salaryData.basePay
      hasBase == IsSet(salaryData.baseSalary) /\ Val(salaryData.baseSalary) # 0
      allowances == [transport |-> 1000, meal |-> 500, mobile |-> 300,
                     performance |-> IF monthlyAttendance.attendancePercentage >= 95
                                     THEN 2000 ELSE 0]
      pf == IF hasBase THEN Some(RoundDiv(12 * Val(salaryData.baseSalary), 100)) ELSE NaN
      esi == IF hasBase THEN Some(RoundDiv(175 * Val(salaryData.baseSalary), 10000)) ELSE NaN
      advance == employee.salary.deductions
      totalAllowances == allowances.transport + allowances.meal + allowances.mobile
                           + allowances.performance
      totalDeductions == IF hasBase THEN Some(Val(pf) + Val(esi) + 0 + advance) ELSE NaN
      \* salaryData.grossSalary || 0
      grossSalary == IF IsSet(salaryData.grossSalary) THEN Val(salaryData.grossSalary) ELSE 0
  IN [basicSalary |-> IF hasBase THEN Val(salaryData.baseSalary) ELSE 0,
      overtimePay |-> salaryData.overtimePay,
      allowances |-> allowances,
      totalAllowances |-> totalAllowances,
      grossEarnings |-> grossSalary + 100 * totalAllowances,
      deductions |-> [pf |-> pf, esi |-> esi, tax |-> 0, advance |-> advance],
      totalDeductions |-> totalDeductions,
      netSalary |-> IF hasBase
                    THEN Some(grossSalary + 100 * totalAllowances
                                - 100 * Val(totalDeductions))
                    ELSE NaN]

\* router.get('/:id/salary/:month/:year') for the current month
Payslip(id) ==
  IF ~findById(id).found
  THEN DataResponse("payslip", id, "Employee not found", None)
  ELSE LET employee == findById(id)
           monthlyAttendance == getMonthlyAttendance(employee, Now)
           salaryData == calculateSalary(employee, monthlyAttendance)
       IN DataResponse("payslip", id, "Payslip generated successfully",
            [period |-> None,
             workingDays |-> monthlyAttendance.presentDays + monthlyAttendance.absentDays,
             pay |-> PayBlocks(employee, monthlyAttendance, salaryData),
             attendance |-> monthlyAttendance])

GetPayslip(id) ==
  /\ last' = Payslip(id)
  /\ UNCHANGED <<db, clock, req, done, arrived>>

\* router.get('/salary/summary/:month/:year') for the current month when
\* Employee.find returned the active employees in the order `order`
SalarySummary(order) ==
  LET salarySummary ==
        [i \in DOMAIN order |->
           LET employee == db[order[i]]
               monthlyAttendance == getMonthlyAttendance(employee, Now)
           IN [id |-> order[i],
               attendance |-> monthlyAttendance,
               pay |-> PayBlocks(employee, monthlyAttendance,
                                 calculateSalary(employee, monthlyAttendance))]]
  IN DataResponse("salarysummary", "none", "Salary summary retrieved successfully",
       [period |-> None,
        totalEmployees |-> Len(order),
        employees |-> salarySummary])

SalarySummaries == {SalarySummary(order) : order \in Orders(ActiveEmps)}

GetSalarySummary ==
  /\ last' \in SalarySummaries
  /\ UNCHANGED <<db, clock, req, done, arrived>>

-----------------------------------------------------------------------------
(* Reports over histories of several weeks.  Each history is what the       *)
(* check-in and check-out handlers leave behind when an employee works the  *)
(* days of a plan, one day after the other from day 0.                      *)

\* The salary configurations of the employees: base may be unset, or zero
Salaries ==
  {[base |-> None, overtime |-> None, bonus |-> 0, deductions |-> 0],
   [base |-> Some(0), overtime |-> None, bonus |-> 100, deductions |-> 0],
   [base |-> Some(30000), overtime |-> Some(200), bonus |-> 0, deductions |-> 500],
   [base |-> Some(12345), overtime |-> None, bonus |-> 100, deductions |-> 0]}

NoShift == [startTime |-> None, endTime |-> None]

\* The attendance of `employee` after day d went by in the way `kind` says:
\* late is 09:20 to 18:10, early is 09:00 to 17:00, present is 09:00 to 18:10,
\* absent is a record without a check-in
DayOfKind(employee, kind, d) ==
  LET t0 == d * DaySeconds
      tin == IF kind = "late" THEN t0 + 33600 ELSE t0 + 32400
      tout == IF kind = "early" THEN t0 + 61200 ELSE t0 + 65400
      checkedIn == [employee EXCEPT !.attendance = Checkin(employee, tin).attendance]
  IN IF kind = "absent" THEN Append(employee.attendance, AbsentDay(t0))
     ELSE Checkout(checkedIn, tout).attendance

RECURSIVE History(_, _, _)
History(employee, plan, d) ==
  IF plan = <<>> THEN employee.attendance
  ELSE History([employee EXCEPT !.attendance = DayOfKind(employee, Head(plan), d)],
               Tail(plan), d + 1)

Repeat(kind, n) == [i \in 1..n |-> kind]

\* l late days, then e days left early, then p days on time, then a days absent
Plan(l, e, p, a) ==
  Repeat("late", l) \o Repeat("early", e) \o Repeat("present", p) \o Repeat("absent", a)

Plans == {Plan(0, 0, 0, 0), Plan(0, 0, 0, 1), Plan(1, 0, 0, 0), Plan(0, 0, 9, 1),
          Plan(2, 1, 7, 0), Plan(0, 0, 19, 1), Plan(2, 1, 21, 1)}

\* Readings of the clock at 00:10 of day 9, day 19 and day 24
CalcClocks == {187, 427, 547}

\* req.query.startDate and endDate of the reports over these histories
CalcRanges == {<<>>, <<0, 9 * DaySeconds>>, <<7 * DaySeconds, 9 * DaySeconds>>,
               <<10 * DaySeconds, 30 * DaySeconds>>, <<40 * DaySeconds, 50 * DaySeconds>>,
               <<9 * DaySeconds, 0>>}

Blank(sal) == [found |-> TRUE, isActive |-> TRUE, shiftTiming |-> NoShift,
               attendance |-> <<>>, salary |-> sal]

InitCalc ==
  /\ clock \in CalcClocks
  /\ \E p1 \in Plans, p2 \in {Plan(0, 0, 9, 1), Plan(2, 1, 7, 0)}, sal \in Salaries :
        /\ Len(p1) <= DayOf(TimeAt(clock)) + 1
        /\ db = [id \in Emps |->
                   IF id = "e1"
                   THEN [Blank(sal) EXCEPT !.attendance = History(Blank(sal), p1, 0)]
                   ELSE [Blank(sal) EXCEPT !.attendance = History(Blank(sal), p2, 0)]]
  /\ req = [r \in Reqs |-> Idle]
  /\ last = NoResponse
  /\ done = EmptyBag
  /\ arrived = 0

NextCalc ==
  \/ \E id \in SingleIds, range \in CalcRanges : GetAttendance(id, range)
  \/ \E range \in CalcRanges : GetComprehensive(range)
  \/ GetAttendanceStats
  \/ \E id \in SingleIds : GetPayslip(id)
  \/ GetSalarySummary
  \/ Deactivate("e2") /\ last.op = "none"

SpecCalc == InitCalc /\ [][NextCalc]_vars

-----------------------------------------------------------------------------
(* Reports over the histories the four attendance requests of "e1" build,   *)
(* one request at a time                                                    *)

InitReport ==
  /\ clock = 1
  /\ \E sal \in {c \in Salaries : IsSet(c.overtime)}, att \in {<<>>, <<AbsentDay(TimeAt(1))>>} :
        db = [id \in Emps |->
                [Blank(sal) EXCEPT !.attendance = IF id = "e1" THEN att ELSE <<>>]]
  /\ req = [r \in Reqs |-> Idle]
  /\ last = NoResponse
  /\ done = EmptyBag
  /\ arrived = 0

\* The GET requests: one await of the query, then the response
Reports ==
  \/ \E id \in SingleIds, range \in RangeInputs : GetAttendance(id, range)
  \/ \E range \in RangeInputs : GetComprehensive(range)
  \/ GetAttendanceStats
  \/ \E id \in SingleIds : GetPayslip(id)
  \/ GetSalarySummary

NextReport ==
  \/ Tick
  \/ NoneInFlight /\ ArrivalsFail /\ UNCHANGED arrived
  \/ \E r \in Reqs : Handle(r)
  \/ \E r \in Reqs : Save(r)
  \/ NoneInFlight /\ Reports

SpecReport == InitReport /\ [][NextReport]_vars

-----------------------------------------------------------------------------
(* Shifts that end when, or before, they start.  The employee routes store  *)
(* shiftTiming as sent (lines 180, 226); "e1" is followed through TimeLine, *)
(* one request at a time                                                    *)

\* shiftTiming of the employees of SpecShift: 09:00-18:00, 09:00-09:00 and
\* 18:00-09:00
OddShifts == { [startTime |-> <<9, 0>>, endTime |-> <<18, 0>>],
               [startTime |-> <<9, 0>>, endTime |-> <<9, 0>>],
               [startTime |-> <<18, 0>>, endTime |-> <<9, 0>>] }

InitShift ==
  /\ clock = 1
  /\ \E sh \in OddShifts :
        db = [id \in Emps |->
                [found |-> TRUE, isActive |-> TRUE, shiftTiming |-> sh,
                 attendance |-> <<>>]]
  /\ req = [r \in Reqs |-> Idle]
  /\ last = NoResponse
  /\ done = EmptyBag
  /\ arrived = 0

NextShift ==
  \/ Tick
  \/ NoneInFlight /\ ArrivalsFail /\ UNCHANGED arrived
  \/ \E r \in Reqs : Handle(r)
  \/ \E r \in Reqs : Save(r)

SpecShift == InitShift /\ [][NextShift]_vars

-----------------------------------------------------------------------------
(* Vocabulary of the properties *)

\* The error kind a response message stands for
ErrorKind(message) ==
  CASE message = "Employee not found" -> "NotFound"
    [] message = "No attendance record found for today" -> "NotFound"
    [] message = "Cannot check in inactive employee" -> "InactiveEmployee"
    [] message = "Already checked in today" -> "AlreadyCheckedIn"
    [] message \in {"Not checked in today", "Employee not checked in today"} -> "NotCheckedIn"
    [] message \in {"Already checked out today", "Employee already checked out"}
         -> "AlreadyCheckedOut"
    [] message = "Break already in progress" -> "BreakInProgress"
    [] message = "No ongoing break found" -> "NoOpenBreak"
    [] message \in {"Invalid break type", "Employee IDs array is required",
                    "Maximum 50 employees can be processed at once"} -> "InvalidInput"
    [] OTHER -> "none"

Days == {DayOf(TimeAt(k)) : k \in 1..MaxTick}

\* How many `op` requests of employee id issued on day d succeeded
Succeeded(op, id, d) == CopiesIn(<<op, id, d>>, done)

\* The stored record of employee id for the calendar day of instant t, and
\* whether there is one
HasDay(id, t) == FindAttendance(db[id].attendance, t) # 0
DayRecordIn(store, id, t) ==
  store[id].attendance[FindAttendance(store[id].attendance, t)]
DayRecord(id, t) == DayRecordIn(db, id, t)

\* The open breaks of a record
OpenBreaks(day) == {i \in 1..Len(day.breaks) : ~IsSet(day.breaks[i].endTime)}

\* Request slot r takes the step that ends the synchronous part of `op`, and
\* the step in which its save resolves
Handles(r, op) ==
  /\ req[r].pc = "loaded" /\ req[r].op = op /\ req[r].id \in Emps
  /\ req'[r].pc # "loaded"
Saves(r, op) ==
  /\ req[r].pc = "saving" /\ req[r].op = op
  /\ req'[r].pc # "saving"

\* Minutes of the breaks that have an endTime
RECURSIVE ClosedMinutes(_)
ClosedMinutes(breaks) ==
  IF breaks = <<>> THEN 0
  ELSE (IF IsSet(Head(breaks).endTime) /\ IsSet(Head(breaks).duration)
        THEN Val(Head(breaks).duration) ELSE 0)
       + ClosedMinutes(Tail(breaks))

-----------------------------------------------------------------------------
(* C1 - C3 *)

\* C1: for one employee and one calendar day, at most one check-in request is
\* answered with success, however the check-in requests overlap.
C1_AtMostOneCheckinSucceeds ==
  \A id \in Emps, d \in Days : Succeeded("checkin", id, d) <= 1

\* C2: for one employee and one calendar day, at most one check-out request is
\* answered with success, however the check-out requests overlap.
C2_AtMostOneCheckoutSucceeds ==
  \A id \in Emps, d \in Days : Succeeded("checkout", id, d) <= 1

\* C3: in every reachable state, under every interleaving of check-in and bulk
\* check-in requests, a stored attendance history holds at most one record per
\* calendar date.
C3_OneRecordPerDate ==
  \A id \in Emps : \A i, j \in 1..Len(db[id].attendance) :
     i # j => ~SameDate(db[id].attendance[i].date, db[id].attendance[j].date)

\* A check-in and a bulk check-in of the same employee overlapped on one day,
\* both were saved, and the history also holds a record of another date
C3_Witness ==
  \E d \in Days :
     /\ Succeeded("checkin", "e1", d) >= 1
     /\ Succeeded("bulkcheckin", "e1", d) >= 1
     /\ Len(db["e1"].attendance) = 2

-----------------------------------------------------------------------------
(* C4 - C6: rejections when requests come one at a time (SpecSeq) *)

\* C4: a check-in of an employee whose record of today has no loginTime goes on
\* to its save and is answered with success, storing its time as loginTime;
\* every check-in that follows on that day with no check-out in between is
\* answered 'Already checked in today' and leaves the stored history as it was.
C4_CheckinTwice ==
  [][\A r \in Reqs :
       /\ Handles(r, "checkin") =>
            IF HasDay(req[r].id, Now) /\ IsSet(DayRecord(req[r].id, Now).loginTime)
            THEN ~IsSet(DayRecord(req[r].id, Now).logoutTime) =>
                   /\ ErrorKind(last'.message) = "AlreadyCheckedIn"
                   /\ db' = db
            ELSE /\ db' = db
                 /\ db[req[r].id].isActive => req'[r].pc = "saving"
       /\ Saves(r, "checkin") =>
            /\ last'.message = "success"
            /\ DayRecordIn(db', req[r].id, Val(req[r].at)).loginTime = req[r].at
            /\ DayRecordIn(db', req[r].id, Val(req[r].at)).breaks = <<>>
    ]_vars

\* A second check-in was just rejected on a day whose one check-in succeeded
C4_Witness ==
  /\ last.op = "checkin" /\ last.message = "Already checked in today"
  /\ Succeeded("checkin", "e1", DayOf(Now)) = 1
  /\ ~IsSet(DayRecord("e1", Now).logoutTime)

\* C5: break-start goes on to append one open break exactly when today's record
\* has loginTime, no logoutTime and no open break; otherwise it is answered
\* NotCheckedIn, AlreadyCheckedOut or BreakInProgress, in this order of
\* precedence, and no break is appended.
C5_BreakStartGuard ==
  [][\A r \in Reqs :
       /\ Handles(r, "breakstart") =>
            /\ db' = db
            /\ IF ~HasDay(req[r].id, Now) \/ ~IsSet(DayRecord(req[r].id, Now).loginTime)
               THEN ErrorKind(last'.message) = "NotCheckedIn"
               ELSE IF IsSet(DayRecord(req[r].id, Now).logoutTime)
               THEN ErrorKind(last'.message) = "AlreadyCheckedOut"
               ELSE IF OpenBreaks(DayRecord(req[r].id, Now)) # {}
               THEN ErrorKind(last'.message) = "BreakInProgress"
               ELSE req'[r].pc = "saving" /\ last' = NoResponse
       /\ Saves(r, "breakstart") =>
            /\ last'.message = "success"
            /\ DayRecordIn(db', req[r].id, Val(req[r].at)).breaks =
                 Append(DayRecord(req[r].id, Val(req[r].at)).breaks,
                        [startTime |-> Val(req[r].at), endTime |-> None,
                         duration |-> None, type |-> req[r].type])
    ]_vars

\* A break-start was just rejected because the break started before is open
C5_Witness ==
  /\ last.op = "breakstart" /\ last.message = "Break already in progress"
  /\ Cardinality(OpenBreaks(DayRecord("e1", Now))) = 1
  /\ Succeeded("breakstart", "e1", DayOf(Now)) >= 1

\* C6 as stated: whenever break-end fails for an existing employee, it fails
\* with the NoOpenBreak error kind.
C6_AlwaysNoOpenBreak ==
  (last.op = "breakend" /\ last.id \in Emps /\ last.message # "success")
     => ErrorKind(last.message) = "NoOpenBreak"

\* C6 amended: break-end of an employee with no open break today changes
\* nothing and is answered 'No ongoing break found' (NoOpenBreak) when a record
\* of today exists, and 'No attendance record found for today' when none does.
C6_BreakEndRejected ==
  [][\A r \in Reqs :
       (Handles(r, "breakend") /\
          (~HasDay(req[r].id, Now) \/ OpenBreaks(DayRecord(req[r].id, Now)) = {})) =>
            /\ db' = db
            /\ last'.message = IF HasDay(req[r].id, Now)
                               THEN "No ongoing break found"
                               ELSE "No attendance record found for today"
    ]_vars

\* A break-end was just rejected on a day that is checked out with its one
\* break closed
C6_Witness ==
  /\ last.op = "breakend" /\ last.message = "No ongoing break found"
  /\ IsSet(DayRecord("e1", Now).logoutTime)
  /\ Len(DayRecord("e1", Now).breaks) = 1

-----------------------------------------------------------------------------
(* C7 - C10 *)

\* C7: in every reachable state, under every interleaving of break-start
\* requests, each stored day has at most one break without endTime.
C7_AtMostOneOpenBreak ==
  \A id \in Emps : \A i \in 1..Len(db[id].attendance) :
     Cardinality(OpenBreaks(db[id].attendance[i])) <= 1

\* Two break-starts of one day were both answered with success, and the day
\* holds one open break
C7_Witness ==
  /\ Succeeded("breakstart", "e1", DayOf(Now)) = 2
  /\ HasDay("e1", Now)
  /\ Cardinality(OpenBreaks(DayRecord("e1", Now))) = 1

\* C8: after any sequence of check-in, break-start, break-end and check-out,
\* each day's totalBreakTime is the sum of the durations of its breaks that
\* have an endTime.
C8_TotalBreakTime ==
  \A id \in Emps : \A i \in 1..Len(db[id].attendance) :
     db[id].attendance[i].totalBreakTime = ClosedMinutes(db[id].attendance[i].breaks)

\* A day with two closed breaks of 160 and 300 minutes
C8_Witness ==
  /\ HasDay("e1", Now)
  /\ Len(DayRecord("e1", Now).breaks) = 2
  /\ OpenBreaks(DayRecord("e1", Now)) = {}
  /\ DayRecord("e1", Now).breaks[1].duration = Some(160)
  /\ DayRecord("e1", Now).breaks[2].duration = Some(300)
  /\ DayRecord("e1", Now).totalBreakTime = 460

\* C9: check-out with no record of today or no loginTime is answered
\* NotCheckedIn, check-out of a day that has logoutTime is answered
\* AlreadyCheckedOut, and neither changes the stored history.
C9_CheckoutRejected ==
  [][\A r \in Reqs :
       Handles(r, "checkout") =>
         IF ~HasDay(req[r].id, Now) \/ ~IsSet(DayRecord(req[r].id, Now).loginTime)
         THEN ErrorKind(last'.message) = "NotCheckedIn" /\ db' = db
         ELSE IF IsSet(DayRecord(req[r].id, Now).logoutTime)
         THEN ErrorKind(last'.message) = "AlreadyCheckedOut" /\ db' = db
         ELSE req'[r].pc = "saving"
    ]_vars

\* A second check-out was just rejected
C9_Witness ==
  /\ last.op = "checkout" /\ last.message = "Already checked out today"
  /\ IsSet(DayRecord("e1", Now).logoutTime)
  /\ Succeeded("checkout", "e1", DayOf(Now)) = 1

\* C10: in every reachable state, under every interleaving of break-start and
\* check-out, a stored day that has logoutTime has no break without endTime.
C10_NoOpenBreakAfterCheckout ==
  \A id \in Emps : \A i \in 1..Len(db[id].attendance) :
     IsSet(db[id].attendance[i].logoutTime) => OpenBreaks(db[id].attendance[i]) = {}

\* The check-out of a day has been saved while a break-start that read the day
\* before the check-out, and has appended its open break, is still to be saved
C10_Witness ==
  /\ HasDay("e1", Now)
  /\ IsSet(DayRecord("e1", Now).logoutTime)
  /\ \E r \in Reqs :
        /\ req[r].pc = "saving" /\ req[r].op = "breakstart" /\ req[r].id = "e1"
        /\ SameDate(Val(req[r].at), Now)

-----------------------------------------------------------------------------
(* C11 - C14: the figures a check-in and a check-out store (SpecDay) *)

\* The shift of a stored employee as "HH:MM" pairs, 09:00 and 18:00 when unset
StartOf(id) == IF db[id].shiftTiming.startTime = <<>> THEN <<9, 0>>
               ELSE db[id].shiftTiming.startTime
EndOf(id) == IF db[id].shiftTiming.endTime = <<>> THEN <<18, 0>>
             ELSE db[id].shiftTiming.endTime

\* The instant of "HH:MM" on the calendar day of instant t
OnDay(t, hm) == DayOf(t) * DaySeconds + hm[1] * 3600 + hm[2] * 60

\* Request slot r takes the step in which the save of a check-in resolves, be
\* it the save of a single check-in or of one iteration of bulk check-in
CheckinSaved(r) ==
  \/ Saves(r, "checkin")
  \/ req[r].pc = "bulksave" /\ req'[r].pc # "bulksave"

\* C11: for every successful check-in (single or bulk) at time t with shift
\* start s on the same day, the stored lateMinutes is max(0, floor((t - s) / 60
\* seconds)), and the stored status is late if and only if lateMinutes > 15,
\* otherwise present; s is 09:00 when the shift start is unset.
C11_LateMinutes ==
  [][\A r \in Reqs :
       CheckinSaved(r) =>
         LET t == Val(req[r].at)
             s == OnDay(t, StartOf(req[r].id))
             day == DayRecordIn(db', req[r].id, t)
         IN /\ day.loginTime = Some(t)
            /\ day.lateMinutes = Max(0, (t - s) \div 60)
            /\ day.status = IF day.lateMinutes > 15 THEN "late" ELSE "present"
    ]_vars

\* A check-in at 09:15:30 with the shift start unset was just saved: 15 late
\* minutes, status present
C11_Witness ==
  /\ last.op = "checkin" /\ last.message = "success"
  /\ db["e1"].shiftTiming.startTime = <<>>
  /\ DayRecord("e1", Now).loginTime = Some(33330)
  /\ DayRecord("e1", Now).lateMinutes = 15
  /\ DayRecord("e1", Now).status = "present"

\* C12: at a successful check-out the status is the first match of: overtime
\* if overtimeHours > 0.5; early-leave if earlyLeaveMinutes > 30; half-day if
\* hoursWorked < 4; otherwise the status the check-in set, present or late.
\* Overtime wins when the overtime and early-leave conditions both hold.
C12_StatusPrecedence ==
  [][\A r \in Reqs :
       Saves(r, "checkout") =>
         LET t == Val(req[r].at)
             id == req[r].id
             before == DayRecord(id, t)
             day == DayRecordIn(db', id, t)
             workedSeconds == (t - Val(day.loginTime)) - 60 * day.totalBreakTime
             shiftSeconds == OnDay(t, EndOf(id)) - OnDay(t, StartOf(id))
             overtimeSeconds == Max(0, workedSeconds - shiftSeconds)
             earlyLeaveMinutes == Max(0, (OnDay(t, EndOf(id)) - t) \div 60)
         IN /\ before.status \in {"present", "late"}
            /\ day.status =
                 IF overtimeSeconds > 1800 THEN "overtime"
                 ELSE IF earlyLeaveMinutes > 30 THEN "early-leave"
                 ELSE IF workedSeconds < 4 * 3600 THEN "half-day"
                 ELSE before.status
    ]_vars

\* A check-out at 17:00 of a 13:00-18:00 shift entered at 09:20 was just saved:
\* 2.67 hours of overtime and 60 minutes before the shift end, status overtime
C12_Witness ==
  /\ last.op = "checkout" /\ last.message = "success"
  /\ db["e1"].shiftTiming.endTime = <<18, 0>>
  /\ DayRecord("e1", Now).loginTime = Some(33600)
  /\ DayRecord("e1", Now).logoutTime = Some(61200)
  /\ DayRecord("e1", Now).breaks = <<>>
  /\ DayRecord("e1", Now).overtimeHours = Some(267)
  /\ DayRecord("e1", Now).status = "overtime"

\* C13: at a successful check-out at time now, hoursWorked is
\* ((now - loginTime) in minutes - totalBreakTime) / 60, where totalBreakTime
\* includes the duration of the break this check-out force-closed at now.
C13_WorkedMinutes ==
  [][\A r \in Reqs :
       Saves(r, "checkout") =>
         LET t == Val(req[r].at)
             before == DayRecord(req[r].id, t)
             day == DayRecordIn(db', req[r].id, t)
         IN /\ day.logoutTime = Some(t)
            /\ Len(day.breaks) = Len(before.breaks)
            /\ \A b \in 1..Len(before.breaks) :
                  IF b \in OpenBreaks(before)
                  THEN /\ day.breaks[b].endTime = Some(t)
                       /\ day.breaks[b].duration =
                            Some(RoundDiv(t - before.breaks[b].startTime, 60))
                  ELSE day.breaks[b] = before.breaks[b]
            /\ day.totalBreakTime = ClosedMinutes(day.breaks)
            /\ day.hoursWorked =
                 Some(RoundDiv((t - Val(day.loginTime)) - 60 * day.totalBreakTime, 36))
    ]_vars

\* A check-out at 17:00 was just saved that closed the break begun at 12:00:
\* 460 minutes since the 09:20 check-in less 300 of break, 2.67 hours
C13_Witness ==
  /\ last.op = "checkout" /\ last.message = "success"
  /\ DayRecord("e1", Now).loginTime = Some(33600)
  /\ Len(DayRecord("e1", Now).breaks) = 1
  /\ DayRecord("e1", Now).breaks[1].endTime = DayRecord("e1", Now).logoutTime
  /\ DayRecord("e1", Now).breaks[1].duration = Some(300)
  /\ DayRecord("e1", Now).totalBreakTime = 300
  /\ DayRecord("e1", Now).hoursWorked = Some(267)

\* The one lunch break of the scenario: 12:00 to 12:30
LunchBreak == [startTime |-> 43200, endTime |-> Some(45000),
               duration |-> Some(30), type |-> "lunch"]

\* C14 as stated: an employee with shift 09:00-18:00 who checks in at 09:20 has
\* lateMinutes 20 and status late; after one 30-minute lunch break and a
\* check-out at 17:00 the day has workedMinutes 450, hoursWorked 7.5,
\* overtimeHours 0, earlyLeaveMinutes 60 and status early-leave.
C14_ScenarioAsStated ==
  \A id \in Emps : \A i \in 1..Len(db[id].attendance) :
     LET day == db[id].attendance[i]
     IN (StartOf(id) = <<9, 0>> /\ EndOf(id) = <<18, 0>>
           /\ day.loginTime = Some(33600)) =>
          /\ day.lateMinutes = 20
          /\ ~IsSet(day.logoutTime) => day.status = "late"
          /\ (day.logoutTime = Some(61200) /\ day.breaks = <<LunchBreak>>) =>
                /\ (61200 - 33600) \div 60 - day.totalBreakTime = 450
                /\ day.hoursWorked = Some(750)
                /\ day.overtimeHours = Some(0)
                /\ day.earlyLeaveMinutes = Some(60)
                /\ day.status = "early-leave"

\* C14 amended: the same scenario has workedMinutes 430 (460 minutes from
\* 09:20 to 17:00 less the 30 of the break) and hoursWorked 7.17; lateMinutes
\* 20, status late at check-in, overtimeHours 0, earlyLeaveMinutes 60 and the
\* final status early-leave are as stated.
C14_Scenario ==
  \A id \in Emps : \A i \in 1..Len(db[id].attendance) :
     LET day == db[id].attendance[i]
     IN (StartOf(id) = <<9, 0>> /\ EndOf(id) = <<18, 0>>
           /\ day.loginTime = Some(33600)) =>
          /\ day.lateMinutes = 20
          /\ ~IsSet(day.logoutTime) => day.status = "late"
          /\ (day.logoutTime = Some(61200) /\ day.breaks = <<LunchBreak>>) =>
                /\ (61200 - 33600) \div 60 - day.totalBreakTime = 430
                /\ day.hoursWorked = Some(717)
                /\ day.overtimeHours = Some(0)
                /\ day.earlyLeaveMinutes = Some(60)
                /\ day.status = "early-leave"

\* The day of the scenario, checked out
C14_Witness ==
  /\ StartOf("e1") = <<9, 0>> /\ EndOf("e1") = <<18, 0>>
  /\ HasDay("e1", Now)
  /\ DayRecord("e1", Now).loginTime = Some(33600)
  /\ DayRecord("e1", Now).breaks = <<LunchBreak>>
  /\ DayRecord("e1", Now).logoutTime = Some(61200)
  /\ DayRecord("e1", Now).status = "early-leave"

-----------------------------------------------------------------------------
(* C15 - C17: invariants of the stored day *)

\* C15: in every reachable state a day's hoursWorked, when present, is greater
\* than or equal to 0, for every sequence of check-in, break-start, break-end
\* and check-out at non-decreasing times.
C15_HoursWorkedNonNegative ==
  \A id \in Emps : \A i \in 1..Len(db[id].attendance) :
     IsSet(db[id].attendance[i].hoursWorked) =>
       Val(db[id].attendance[i].hoursWorked) >= 0

\* C16: in every reachable state a day whose logoutTime is present has
\* logoutTime strictly later than loginTime, also when the check-out is issued
\* at the clock reading of the check-in.
C16_LogoutAfterLogin ==
  \A id \in Emps : \A i \in 1..Len(db[id].attendance) :
     IsSet(db[id].attendance[i].logoutTime) =>
       /\ IsSet(db[id].attendance[i].loginTime)
       /\ Val(db[id].attendance[i].logoutTime) > Val(db[id].attendance[i].loginTime)

\* C17: in every reachable state a day's hoursWorked and overtimeHours are
\* present only if its logoutTime is present: check-in, break-start and
\* break-end never set them.
C17_HoursOnlyAfterCheckout ==
  \A id \in Emps : \A i \in 1..Len(db[id].attendance) :
     (IsSet(db[id].attendance[i].hoursWorked) \/ IsSet(db[id].attendance[i].overtimeHours))
        => IsSet(db[id].attendance[i].logoutTime)

\* The first day is checked out and has both figures; the second day has a
\* check-in and a closed break, no check-out and neither figure
C17_Witness ==
  /\ Len(db["e1"].attendance) = 2
  /\ IsSet(db["e1"].attendance[1].logoutTime)
  /\ IsSet(db["e1"].attendance[1].hoursWorked)
  /\ IsSet(db["e1"].attendance[1].overtimeHours)
  /\ IsSet(db["e1"].attendance[2].loginTime)
  /\ Len(db["e1"].attendance[2].breaks) = 1
  /\ OpenBreaks(db["e1"].attendance[2]) = {}
  /\ ~IsSet(db["e1"].attendance[2].logoutTime)
  /\ ~IsSet(db["e1"].attendance[2].hoursWorked)
  /\ ~IsSet(db["e1"].attendance[2].overtimeHours)

-----------------------------------------------------------------------------
(* C18 - C20: the checked-out day and the deactivated employee *)

\* C18: once a day's record has logoutTime, no later check-in, break-start,
\* break-end or check-out request, sent one at a time, changes its loginTime,
\* logoutTime, hoursWorked, overtimeHours, status, breaks or totalBreakTime.
C18_CheckedOutIsTerminal ==
  [][\A id \in Emps : \A i \in 1..Len(db[id].attendance) :
       IsSet(db[id].attendance[i].logoutTime) =>
         /\ Len(db'[id].attendance) >= i
         /\ db'[id].attendance[i] = db[id].attendance[i]
    ]_vars

\* A break-start was just rejected on a day that is checked out, after that
\* day's check-in, break-start and check-out had succeeded
C18_Witness ==
  /\ last.op = "breakstart" /\ last.message = "Employee already checked out"
  /\ IsSet(DayRecord("e1", Now).logoutTime)
  /\ Len(DayRecord("e1", Now).breaks) = 1
  /\ Succeeded("checkout", "e1", DayOf(Now)) = 1

\* C19 as stated: a check-in issued after a successful check-out on the same
\* calendar day succeeds and overwrites the day's record (new loginTime, status
\* and lateMinutes, empty break list, totalBreakTime 0).
C19_CheckinReopensDay ==
  [][\A r \in Reqs :
       (/\ Handles(r, "checkin")
        /\ db[req[r].id].isActive
        /\ HasDay(req[r].id, Now)
        /\ IsSet(DayRecord(req[r].id, Now).logoutTime)) =>
          /\ req'[r].pc = "saving"
          /\ LET day == req'[r].doc.attendance[FindAttendance(req'[r].doc.attendance, Now)]
             IN /\ day.loginTime = Some(Now)
                /\ day.breaks = <<>>
                /\ day.totalBreakTime = 0
    ]_vars

\* C19 amended: a check-in issued after a successful check-out on the same
\* calendar day is answered 'Already checked in today' (AlreadyCheckedIn) and
\* leaves the stored history as it was.
C19_CheckinAfterCheckoutRejected ==
  [][\A r \in Reqs :
       (/\ Handles(r, "checkin")
        /\ db[req[r].id].isActive
        /\ HasDay(req[r].id, Now)
        /\ IsSet(DayRecord(req[r].id, Now).logoutTime)) =>
          /\ ErrorKind(last'.message) = "AlreadyCheckedIn"
          /\ req'[r].pc = "idle"
          /\ db' = db
    ]_vars

\* A check-in was just rejected on a day that is checked out
C19_Witness ==
  /\ last.op = "checkin" /\ last.message = "Already checked in today"
  /\ IsSet(DayRecord("e1", Now).logoutTime)
  /\ Succeeded("checkin", "e1", DayOf(Now)) = 1
  /\ Succeeded("checkout", "e1", DayOf(Now)) = 1

\* C20: every check-in, break-start, break-end and check-out attempted on a
\* deactivated employee is answered InactiveEmployee and leaves the attendance
\* history unchanged, also when the employee was deactivated after a successful
\* check-in of that day.
C20_InactiveRejected ==
  [][\A r \in Reqs, op \in SingleOps :
       (Handles(r, op) /\ ~db[req[r].id].isActive) =>
          /\ ErrorKind(last'.message) = "InactiveEmployee"
          /\ req'[r].pc = "idle"
          /\ db' = db
    ]_vars

-----------------------------------------------------------------------------
(* C21 - C23: partial success of bulk check-in, saves that fail *)

\* The successful and failed lists of bulk request r after a step: those of
\* the response when the step sent it, else those the loop has collected
ListsAfter(r) == IF req'[r].pc = "idle" THEN last' ELSE req'[r]

\* The employees bulk request r has still to process after a step
QueueAfter(r) == IF req'[r].pc = "idle" THEN <<>> ELSE req'[r].queue

\* The document of a queued employee has no check-in on the day of instant t
Eligible(doc, t) ==
  \/ FindAttendance(doc.attendance, t) = 0
  \/ ~IsSet(doc.attendance[FindAttendance(doc.attendance, t)].loginTime)

\* C21: in a bulk check-in, an employee that fails (already checked in today,
\* or its save fails) is listed as failed and changes nothing; the loop goes on
\* with every employee left, an eligible employee goes on to its save, a saved
\* check-in is listed as successful, and no step of the request removes a
\* check-in from the store or from the successful list.
C21_BulkIndependent ==
  [][\A r \in Reqs :
       /\ req[r].pc = "bulkloop" /\ req'[r] # req[r] =>
            LET e == Head(req[r].queue)
            IN /\ db' = db
               /\ IF Eligible(e.doc, Val(req[r].at))
                  THEN /\ req'[r].pc = "bulksave" /\ req'[r].id = e.id
                       /\ req'[r].queue = req[r].queue
                       /\ req'[r].successful = req[r].successful
                       /\ req'[r].failed = req[r].failed
                  ELSE /\ QueueAfter(r) = Tail(req[r].queue)
                       /\ ListsAfter(r).successful = req[r].successful
                       /\ ListsAfter(r).failed = req[r].failed \cup {e.id}
       /\ req[r].pc = "bulksave" /\ req'[r] # req[r] =>
            /\ QueueAfter(r) = Tail(req[r].queue)
            /\ \A id \in Emps \ {req[r].id} : db'[id] = db[id]
            /\ \/ /\ db' = db
                  /\ ListsAfter(r).successful = req[r].successful
                  /\ ListsAfter(r).failed = req[r].failed \cup {req[r].id}
               \/ /\ DayRecordIn(db', req[r].id, Val(req[r].at)).loginTime = req[r].at
                  /\ ListsAfter(r).successful = req[r].successful \cup {req[r].id}
                  /\ ListsAfter(r).failed = req[r].failed
    ]_vars

\* A bulk check-in over "e1" and "e2" was just answered: "e1", checked in
\* before, failed; "e2" was checked in by this request
C21_Witness ==
  /\ last.op = "bulk" /\ last.message = "Bulk check-in completed"
  /\ last.failed = {"e1"} /\ last.successful = {"e2"}
  /\ Succeeded("checkin", "e1", DayOf(Now)) = 1
  /\ HasDay("e2", Now) /\ DayRecord("e2", Now).loginTime = Some(Now)

\* C22: in the response of a bulk check-in every requested employee id is in
\* exactly one of the successful and failed lists, ids that do not exist and
\* ids of inactive employees included, so that the two lists together have as
\* many entries as the reported total.
C22_EveryIdReported ==
  [][\A r \in Reqs :
       (req[r].op = "bulk" /\ req'[r].pc = "idle"
          /\ last'.message = "Bulk check-in completed") =>
         /\ \A i \in 1..Len(req[r].ids) :
               req[r].ids[i] \in last'.successful \cup last'.failed
         /\ last'.successful \cap last'.failed = {}
         /\ Cardinality(last'.successful) + Cardinality(last'.failed) = last'.total
    ]_vars

\* A stored day is whole: logoutTime, hoursWorked and overtimeHours are set
\* together, and so are the endTime and the duration of each break
WholeDay(day) ==
  /\ IsSet(day.logoutTime) = IsSet(day.hoursWorked)
  /\ IsSet(day.logoutTime) = IsSet(day.overtimeHours)
  /\ \A b \in 1..Len(day.breaks) :
        IsSet(day.breaks[b].endTime) = IsSet(day.breaks[b].duration)

\* C23: a check-in, break-start, break-end or check-out request changes the
\* store in one step only, the save that succeeds, which stores the whole of
\* the day it has changed; a request that is answered with an error, or whose
\* save fails, leaves the stored attendance history as it was.
C23_AllOrNothing ==
  [][/\ \A r \in Reqs, op \in SingleOps :
          /\ Handles(r, op) => db' = db
          /\ Saves(r, op) =>
               IF last'.message = "success"
               THEN /\ db' = [db EXCEPT ![req[r].id].attendance = req[r].doc.attendance]
                    /\ \A i \in 1..Len(db'[req[r].id].attendance) :
                          WholeDay(db'[req[r].id].attendance[i])
               ELSE /\ db' = db
                    /\ last'.message = FailureMessage(op)
     /\ db' # db => \E r \in Reqs, op \in SingleOps :
                       Saves(r, op) /\ last'.message = "success"
    ]_vars

\* The save of a check-out that would have closed the open break has just
\* failed: the day has no logoutTime and its break is open
C23_Witness ==
  /\ last.op = "checkout" /\ last.message = "Check-out failed"
  /\ HasDay("e1", Now)
  /\ IsSet(DayRecord("e1", Now).loginTime)
  /\ ~IsSet(DayRecord("e1", Now).logoutTime)
  /\ ~IsSet(DayRecord("e1", Now).hoursWorked)
  /\ Cardinality(OpenBreaks(DayRecord("e1", Now))) = 1

-----------------------------------------------------------------------------
(* C24 - C30: the reports *)

ReportOps == {"attendance", "payslip", "salarysummary", "stats", "comprehensive"}

Elements(seq) == {seq[i] : i \in DOMAIN seq}

\* A comprehensive report that holds figures
ComprehensiveAnswered == last.op = "comprehensive" /\ last.data # None

\* What a report was asked: the operation, the employee, the outcome and the
\* period
Query(resp) ==
  <<resp.op, resp.id, resp.message,
    IF resp.data # None THEN resp.data.period ELSE None>>

\* The figures of a report, whatever the order of its lists
Statistics(resp) ==
  IF resp.data = None THEN <<>>
  ELSE CASE resp.op = "comprehensive" ->
              <<resp.data.summary, Elements(resp.data.employeeDetails),
                Elements(resp.data.topPerformers), Elements(resp.data.attendanceIssues)>>
         [] resp.op = "stats" ->
              <<resp.data.totalEmployees, resp.data.overallStats,
                Elements(resp.data.topPerformers), Elements(resp.data.concernedEmployees)>>
         [] resp.op = "salarysummary" ->
              <<resp.data.totalEmployees, Elements(resp.data.employees)>>
         [] OTHER -> <<resp.data>>

\* C24: a report leaves every stored document (attendance history and salary
\* configuration) as it was, and a report that follows the same report on the
\* unchanged store gives the same figures, in whatever order the query
\* returned the documents.
C24_ReportsArePure ==
  [][last'.op \in ReportOps =>
       /\ db' = db
       /\ (last.op \in ReportOps /\ Query(last') = Query(last))
            => Statistics(last') = Statistics(last)]_vars

\* A comprehensive report over a history that holds a day worked to its
\* check-out
C24_Witness ==
  /\ ComprehensiveAnswered
  /\ last.data.summary.totalPresent = 1
  /\ last.data.summary.totalHours > 0
  /\ \E k \in DOMAIN db["e1"].attendance : IsSet(db["e1"].attendance[k].logoutTime)

\* The stored records of employee id whose date lies in the window, both
\* ends included
InWindow(id, window) ==
  {i \in DOMAIN db[id].attendance :
     /\ db[id].attendance[i].date >= window[1]
     /\ db[id].attendance[i].date <= window[2]}

PresentIn(id, window) ==
  Cardinality({i \in InWindow(id, window) : db[id].attendance[i].isPresent})

WithStatus(id, window, status) ==
  Cardinality({i \in InWindow(id, window) : db[id].attendance[i].status = status})

\* n is a / b rounded to the nearest integer, halves upwards (b > 0)
IsRounded(n, a, b) == 2 * b * n <= 2 * a + b /\ 2 * a + b < 2 * b * (n + 1)

\* C25: in a comprehensive report every employee's attendancePercentage is
\* presentDays / (presentDays + absentDays) * 100 rounded to the nearest
\* integer, counted over the stored records dated within the window, ends
\* included; an employee with no record in the window gets attendancePercentage
\* 0 and punctualityScore 0, and the date-range attendance of an employee with
\* no record in the window has averageHours 0.
C25_AttendancePercentage ==
  /\ ComprehensiveAnswered =>
       \A i \in DOMAIN last.data.employeeDetails :
          LET emp == last.data.employeeDetails[i]
              days == Cardinality(InWindow(emp.id, last.data.period))
              present == PresentIn(emp.id, last.data.period)
          IN /\ emp.presentDays = present
             /\ emp.absentDays = days - present
             /\ IF days = 0
                THEN emp.attendancePercentage = 0 /\ emp.punctualityScore = 0
                ELSE IsRounded(emp.attendancePercentage, 100 * present, days)
  /\ (last.op = "attendance" /\ last.data # None /\ last.data.period # None) =>
       (InWindow(last.id, last.data.period) = {} =>
          last.data.averageHours = 0 /\ last.data.presentDays = 0)

\* One report over days 7 to 9: an employee with no record at all, and one
\* present on two of the three days, the third being the last day of the window
C25_Witness ==
  /\ ComprehensiveAnswered
  /\ last.data.period = <<7 * DaySeconds, 9 * DaySeconds>>
  /\ \E i, j \in DOMAIN last.data.employeeDetails :
        /\ last.data.employeeDetails[i].presentDays = 0
        /\ last.data.employeeDetails[i].absentDays = 0
        /\ last.data.employeeDetails[i].attendancePercentage = 0
        /\ last.data.employeeDetails[j].presentDays = 2
        /\ last.data.employeeDetails[j].absentDays = 1
        /\ last.data.employeeDetails[j].attendancePercentage = 67

\* C26: in a comprehensive report lateCount and earlyLeaveCount are the numbers
\* of stored records in the window whose status is late and early-leave, and
\* for an employee with presentDays > 0 the punctualityScore is
\* (presentDays - lateCount - earlyLeaveCount) / presentDays * 100 rounded to
\* the nearest integer; 10 days present, 2 late and 1 left early give 70.
C26_PunctualityScore ==
  ComprehensiveAnswered =>
    \A i \in DOMAIN last.data.employeeDetails :
       LET emp == last.data.employeeDetails[i]
           present == PresentIn(emp.id, last.data.period)
           late == WithStatus(emp.id, last.data.period, "late")
           early == WithStatus(emp.id, last.data.period, "early-leave")
       IN /\ emp.lateCount = late
          /\ emp.earlyLeaveCount = early
          /\ present > 0 =>
               IsRounded(emp.punctualityScore, 100 * (present - late - early), present)
          /\ (present = 10 /\ late = 2 /\ early = 1) => emp.punctualityScore = 70

C26_Witness ==
  /\ ComprehensiveAnswered
  /\ \E i \in DOMAIN last.data.employeeDetails :
        /\ last.data.employeeDetails[i].presentDays = 10
        /\ last.data.employeeDetails[i].lateCount = 2
        /\ last.data.employeeDetails[i].earlyLeaveCount = 1
        /\ last.data.employeeDetails[i].punctualityScore = 70

\* The windows that begin and end on days of the model, the empty ones too
Windows == {<<a * DaySeconds, b * DaySeconds>> : a \in Days, b \in Days}

\* C27: whatever history check-in, break-start, break-end and check-out have
\* stored, the aggregate of every employee over every window, and over the
\* current month, has an attendancePercentage and a punctualityScore between
\* 0 and 100.
C27_ScoresWithinRange ==
  \A id \in Emps :
     /\ \A w \in Windows :
           LET emp == EmployeeDetails(id, db[id], w[1], w[2])
           IN /\ emp.attendancePercentage \in 0..100
              /\ emp.punctualityScore \in 0..100
     /\ getMonthlyAttendance(db[id], Now).attendancePercentage \in 0..100
     /\ getMonthlyAttendance(db[id], Now).punctualityScore \in 0..100

\* A report over a day on which "e1" came late and left early after a break:
\* one of one day present is held against the employee, the score is 0
C27_Witness ==
  /\ ComprehensiveAnswered
  /\ \E i \in DOMAIN last.data.employeeDetails :
        /\ last.data.employeeDetails[i].id = "e1"
        /\ last.data.employeeDetails[i].presentDays = 1
        /\ last.data.employeeDetails[i].earlyLeaveCount = 1
        /\ last.data.employeeDetails[i].punctualityScore = 0
  /\ \E k \in DOMAIN db["e1"].attendance :
        /\ db["e1"].attendance[k].lateMinutes > 15
        /\ Len(db["e1"].attendance[k].breaks) > 0

\* The allowances and deductions of one payslip follow the rules of the
\* payroll calculation
BlocksAsStated(pay, attendancePercentage) ==
  /\ pay.allowances.performance = (IF attendancePercentage >= 95 THEN 2000 ELSE 0)
  /\ pay.allowances.transport = 1000
  /\ pay.allowances.meal = 500
  /\ pay.allowances.mobile = 300
  /\ pay.totalAllowances = pay.allowances.transport + pay.allowances.meal
                             + pay.allowances.mobile + pay.allowances.performance
  /\ IsSet(pay.deductions.pf)
  /\ IsRounded(Val(pay.deductions.pf), 12 * pay.basicSalary, 100)
  /\ IsSet(pay.deductions.esi)
  /\ IsRounded(Val(pay.deductions.esi), 175 * pay.basicSalary, 10000)
  /\ pay.deductions.tax = 0
  /\ IsSet(pay.totalDeductions)
  /\ Val(pay.totalDeductions) = Val(pay.deductions.pf) + Val(pay.deductions.esi)
                                  + pay.deductions.tax + pay.deductions.advance
  /\ (pay.basicSalary = 30000 /\ attendancePercentage = 96) =>
        /\ pay.allowances.performance = 2000
        /\ pay.deductions.pf = Some(3600)
        /\ pay.deductions.esi = Some(525)

\* C28: in every payslip, and in every entry of the salary summary, the
\* performance allowance is 2000 exactly when attendancePercentage >= 95 and 0
\* otherwise, transport is 1000, meal 500, mobile 300, pf is basicSalary * 0.12
\* and esi is basicSalary * 0.0175, each rounded to the nearest integer, tax is
\* 0 and the two totals are the sums of their blocks; basicSalary 30000 with
\* attendance 96 gives performance 2000, pf 3600 and esi 525.
C28_PayslipBlocks ==
  /\ (last.op = "payslip" /\ last.data # None) =>
       BlocksAsStated(last.data.pay, last.data.attendance.attendancePercentage)
  /\ (last.op = "salarysummary" /\ last.data # None) =>
       \A i \in DOMAIN last.data.employees :
          BlocksAsStated(last.data.employees[i].pay,
                         last.data.employees[i].attendance.attendancePercentage)

\* C29: a payslip request for an employee whose salary base is unset fails
\* with MissingSalaryConfig, one whose month covers no day fails with
\* InvalidPeriod, and neither returns a payslip with a netSalary.
C29_PayslipFails ==
  (last.op = "payslip" /\ last.id \in Emps) =>
     /\ ~IsSet(db[last.id].salary.base) =>
          last.data = None /\ ErrorKind(last.message) = "MissingSalaryConfig"
     /\ (last.data # None /\ last.data.workingDays = 0) =>
          ErrorKind(last.message) = "InvalidPeriod"

\* The list is in descending order of performanceScore
SortedByScore(list) ==
  \A i, j \in DOMAIN list : i < j => list[i].performanceScore >= list[j].performanceScore

\* C30: the topPerformers of the attendance statistics and of the
\* comprehensive report are in descending order of their performanceScore,
\* and no active employee outside the list scores more than one inside it.
C30_TopPerformersSorted ==
  /\ (last.op = "stats" /\ last.data # None) =>
       /\ SortedByScore(last.data.topPerformers)
       /\ \A id \in ActiveEmps, i \in DOMAIN last.data.topPerformers :
             (\A j \in DOMAIN last.data.topPerformers :
                 last.data.topPerformers[j].id # id) =>
               last.data.topPerformers[i].performanceScore >=
                 WithPerformanceScore(EmployeeMetrics(id, db[id], Now)).performanceScore
  /\ ComprehensiveAnswered =>
       /\ SortedByScore(last.data.topPerformers)
       /\ \A id \in ActiveEmps, i \in DOMAIN last.data.topPerformers :
             (\A j \in DOMAIN last.data.topPerformers :
                 last.data.topPerformers[j].id # id) =>
               last.data.topPerformers[i].performanceScore >=
                 EmployeeDetails(id, db[id], last.data.period[1],
                                 last.data.period[2]).performanceScore

-----------------------------------------------------------------------------
(* C31 - C33 *)

\* C31: at every successful check-out the stored overtimeHours is
\* max(0, hoursWorked - standardShiftHours), to two decimals, with
\* standardShiftHours the shift's end minus its start, and is not negative;
\* and a shift whose end is not after its start does not make the day an
\* overtime day.
C31_OvertimeHours ==
  [][\A r \in Reqs :
       Saves(r, "checkout") =>
         LET t == Val(req[r].at)
             id == req[r].id
             day == DayRecordIn(db', id, t)
             workedSeconds == (t - Val(day.loginTime)) - 60 * day.totalBreakTime
             shiftSeconds == OnDay(t, EndOf(id)) - OnDay(t, StartOf(id))
         IN /\ IsSet(day.overtimeHours)
            /\ Val(day.overtimeHours) >= 0
            /\ IsRounded(Val(day.overtimeHours),
                         Max(0, workedSeconds - shiftSeconds), 36)
            /\ shiftSeconds <= 0 => day.status # "overtime"
    ]_vars

\* The records of employee id that a request issued at instant t must leave
\* alone: those of every calendar date but that of t
OtherDates(id, t) ==
  {i \in DOMAIN db[id].attendance : ~SameDate(db[id].attendance[i].date, t)}

DayIn(attendance, t) == attendance[FindAttendance(attendance, t)]

\* Two day records agree on what a check-in writes, and hold no break
SameCheckin(a, b) ==
  /\ a.date = b.date
  /\ a.loginTime = b.loginTime
  /\ a.isPresent = b.isPresent
  /\ a.status = b.status
  /\ a.lateMinutes = b.lateMinutes
  /\ a.breaks = <<>> /\ b.breaks = <<>>
  /\ a.totalBreakTime = 0 /\ b.totalBreakTime = 0

\* Request slot r runs one iteration of the bulk check-in loop
Iterates(r) == req[r].pc = "bulkloop" /\ req'[r] # req[r]

\* C33: for an active employee and the same reading of the clock, one
\* iteration of bulk check-in and a single check-in do the same to the day
\* record: one rejects with 'Already checked in today' exactly when the other
\* does, and otherwise the records they leave agree on date, loginTime,
\* isPresent, status, lateMinutes, the empty break list and totalBreakTime 0.
C33_BulkAsSingle ==
  [][\A r \in Reqs :
       /\ (Iterates(r) /\ Head(req[r].queue).doc.isActive) =>
            LET employee == Head(req[r].queue).doc
                now == Val(req[r].at)
                single == Checkin(employee, now)
            IN /\ (single.message = "Already checked in today")
                     <=> (req'[r].pc # "bulksave")
               /\ req'[r].pc = "bulksave" =>
                    /\ single.message = "save"
                    /\ SameCheckin(DayIn(req'[r].doc.attendance, now),
                                   DayIn(single.attendance, now))
       /\ (Handles(r, "checkin") /\ req[r].doc.isActive) =>
            LET bulk == BulkCheckinOne(req[r].doc, Now)
            IN /\ (bulk.message = "Already checked in today")
                     <=> (req'[r].pc # "saving")
               /\ req'[r].pc # "saving" => last'.message = "Already checked in today"
               /\ req'[r].pc = "saving" =>
                    /\ bulk.message = "save"
                    /\ SameCheckin(DayIn(req'[r].doc.attendance, Now),
                                   DayIn(bulk.attendance, Now))
    ]_vars

\* A bulk check-in over "e1" and "e2" was just answered: "e1", checked in
\* alone before, was rejected, and "e2" has the record the iteration wrote
C33_Witness ==
  /\ last.op = "bulk"
  /\ "e1" \in last.failed /\ "e2" \in last.successful
  /\ \E i \in DOMAIN db["e2"].attendance :
        /\ IsSet(db["e2"].attendance[i].loginTime)
        /\ db["e2"].attendance[i].isPresent
        /\ db["e2"].attendance[i].status = "late"
  /\ \E i \in DOMAIN db["e1"].attendance :
        /\ IsSet(db["e1"].attendance[i].loginTime)
        /\ db["e1"].attendance[i].status = "late"

=============================================================================
